---- MODULE Spec2Model ----
(***************************************************************************)
(* A model of the audio mixing core of the repository:                     *)
(*   src/src/utils/audioMixing.ts   class AudioMixer                       *)
(*                                                                         *)
(* Spec runs createMashup on two short tracks, SpecBeat runs detectBeats   *)
(* on trains of bursts, SpecLength runs the factors and lengths of         *)
(* createMashup on two ten-second tracks.  The other specifications call   *)
(* one method on its own: SpecStretch timeStretch, SpecMix the last step   *)
(* of createMashup (mixTracks and applyEffects) on two adjusted tracks,    *)
(* SpecCompress applyCompression, SpecWav audioBufferToWav.                *)
(*                                                                         *)
(* Numbers.  A JavaScript number x is held as the integer x * Scale        *)
(* (fixed point, three decimals); a product or quotient is rounded to the  *)
(* nearest unit, as the Float32Array store and the double arithmetic round *)
(* to the nearest representable value.  NaN, +Infinity and -Infinity are   *)
(* three values outside the finite range, and the F-operators propagate    *)
(* them as IEEE 754 does.                                                  *)
(*                                                                         *)
(* Buffers.  An AudioBuffer is [sampleRate, channels], channels a sequence *)
(* of sample sequences of one length; index i of the code is index i + 1   *)
(* here.                                                                   *)
(***************************************************************************)
EXTENDS Integers, Sequences, FiniteSets, TLC

VARIABLES
  audio,      \* detectBeats: the AudioBuffer it is called with, as the train it holds
  detected,   \* detectBeats: its locals and its result, NotRun before the call
  heap,       \* the AudioBuffers alive: a buffer's identity is its index
  calls,      \* the createMashup calls on the one AudioMixer: locals and position
  lengths,    \* createMashup on two long tracks: its factors and lengths, no samples
  frame,      \* one method of the class called on its own: its arguments and its result
  state,      \* useAudioMixing: its MixingState
  currentOperation,  \* useAudioMixing: its MixingOperation, NoOperation for null
  invocations,  \* useAudioMixing: the loadAudioFile and createMashup calls made, each with
              \* its position and its return value
  urls        \* the object URLs created: what each names and whether it is revoked

beatVars == <<audio, detected>>
mixVars == <<heap, calls>>
hookVars == <<state, currentOperation, invocations, urls>>
vars == <<audio, detected, heap, calls, lengths, frame, hookVars>>

(***************************************************************************)
(* Arithmetic                                                              *)
(***************************************************************************)
Scale == 1000

Abs(x) == IF x < 0 THEN -x ELSE x
Min(a, b) == IF a < b THEN a ELSE b
Max(a, b) == IF a > b THEN a ELSE b

RECURSIVE Gcd(_, _)
Gcd(a, b) == IF b = 0 THEN a ELSE Gcd(b, a % b)

\* a / b rounded to the nearest integer (b > 0), halves away from zero
RDiv(a, b) == IF a >= 0 THEN (2 * a + b) \div (2 * b) ELSE -((2 * (-a) + b) \div (2 * b))

\* floor(a * b / c) for c > 0, keeping the product inside 32 bits
MulDivFloor(a, b, c) ==
  LET g1 == Gcd(Abs(a), c)
      a1 == a \div g1
      c1 == c \div g1
      g2 == Gcd(Abs(b), c1)
  IN  (a1 * (b \div g2)) \div (c1 \div g2)

\* floor(sqrt(n)), n >= 0
RECURSIVE SqrtSearch(_, _, _)
SqrtSearch(n, lo, hi) ==
  IF lo >= hi THEN lo
  ELSE LET mid == (lo + hi + 1) \div 2
       IN  IF mid * mid <= n THEN SqrtSearch(n, mid, hi) ELSE SqrtSearch(n, lo, mid - 1)
Sqrt(n) == SqrtSearch(n, 0, Min(n, 46340))

(***************************************************************************)
(* AudioBuffer                                                             *)
(***************************************************************************)
\* a typed array of n elements: the function over 1..n as a sequence
TypedArray(f) == f \o <<>>

GetChannelData(buffer, ch) == buffer.channels[ch + 1]
Length(buffer) == Len(buffer.channels[1])
NumberOfChannels(buffer) == Len(buffer.channels)

(***************************************************************************)
(* Beat detection: highPassFilter, calculateOnsetStrength, findPeaks,      *)
(* estimateBPM, detectBeats                                                *)
(***************************************************************************)
HopSize == 512
MinDistance == 10
PeakThreshold == 300
DefaultBPM == 120
SecondsPerMinute == 60
PeaksForFullConfidence == 100
MinBPM == 60
MaxBPM == 200
CutoffFreq == 100
\* Math.PI as the fraction PiNum / PiDen
PiNum == 355
PiDen == 113

\* alpha = rc / (rc + dt), rc = 1 / (cutoffFreq * 2 * PI), dt = 1 / sampleRate,
\* which is sampleRate / (sampleRate + 2 * PI * cutoffFreq); <<numerator, denominator>>
Alpha(cutoffFreq, sampleRate) ==
  LET n == sampleRate * PiDen
      d == sampleRate * PiDen + 2 * PiNum * cutoffFreq
      g == Gcd(n, d)
  IN  <<n \div g, d \div g>>

\* filtered[lo..hi] of the loop of highPassFilter, entered with filtered[lo - 1] = prevF:
\* filtered[i] = alpha * (filtered[i - 1] + data[i] - data[i - 1])
RECURSIVE FilterRange(_, _, _, _, _)
FilterRange(data, alpha, lo, hi, prevF) ==
  IF lo = hi
  THEN << RDiv(alpha[1] * (prevF + data[lo] - data[lo - 1]), alpha[2]) >>
  ELSE LET mid == (lo + hi) \div 2
           left == FilterRange(data, alpha, lo, mid, prevF)
       IN  left \o FilterRange(data, alpha, mid + 1, hi, left[Len(left)])

\* a store to filtered[0] of an empty Float32Array is dropped
HighPassFilter(data, cutoffFreq, sampleRate) ==
  IF Len(data) = 0 THEN <<>>
  ELSE IF Len(data) = 1 THEN <<data[1]>>
  ELSE <<data[1]>> \o FilterRange(data, Alpha(cutoffFreq, sampleRate), 2, Len(data), data[1])

\* sum over n samples of max(0, |data[start + i]| - |data[prev + i]|)^2
RECURSIVE SumSquaredRise(_, _, _, _)
SumSquaredRise(data, start, prev, n) ==
  IF n <= 0 THEN 0
  ELSE IF n = 1
  THEN LET diff == Max(0, Abs(data[start]) - Abs(data[prev])) IN diff * diff
  ELSE LET h == n \div 2
       IN  SumSquaredRise(data, start, prev, h) + SumSquaredRise(data, start + h, prev + h, n - h)

CalculateOnsetStrength(data, sampleRate) ==
  LET numFrames == Len(data) \div HopSize
  IN  TypedArray([f \in 1..numFrames |->
         IF f = 1 THEN 0
         ELSE LET startIndex == (f - 1) * HopSize
                  prevStartIndex == (f - 2) * HopSize
                  sum == SumSquaredRise(data, startIndex + 1, prevStartIndex + 1,
                                        Min(HopSize, Len(data) - startIndex))
              IN  Sqrt(sum \div HopSize)])

\* the turns lo..hi (indices of the code) of the loop of findPeaks, peaks being those
\* found before turn lo
RECURSIVE FindPeaksRange(_, _, _, _, _)
FindPeaksRange(data, threshold, lo, hi, peaks) ==
  IF lo > hi THEN peaks
  ELSE IF lo = hi
  THEN IF /\ data[lo + 1] > threshold
          /\ data[lo + 1] > data[lo]
          /\ data[lo + 1] > data[lo + 2]
          /\ (Len(peaks) = 0 \/ lo - peaks[Len(peaks)] >= MinDistance)
       THEN Append(peaks, lo)
       ELSE peaks
  ELSE LET mid == (lo + hi) \div 2
           found == FindPeaksRange(data, threshold, lo, mid, peaks)
       IN  IF Len(found) = 0
           THEN FindPeaksRange(data, threshold, mid + 1, hi, <<>>)
           ELSE FindPeaksRange(data, threshold, mid + 1, hi, found)

\* every local maximum above the threshold, however close to the one before
RECURSIVE LocalMaxima(_, _, _)
LocalMaxima(data, threshold, i) ==
  IF i > Len(data) - 2 THEN <<>>
  ELSE (IF data[i + 1] > threshold /\ data[i + 1] > data[i] /\ data[i + 1] > data[i + 2]
        THEN <<i>> ELSE <<>>) \o LocalMaxima(data, threshold, i + 1)
FindPeaksUnspaced(data, threshold) == LocalMaxima(data, threshold, 1)

\* for (let i = 1; i < data.length - 1; i++)
FindPeaks(data, threshold) == FindPeaksRange(data, threshold, 1, Len(data) - 2, <<>>)

\* Math.round(interval / 10) * 10
RoundToTen(interval) == ((interval + 5) \div 10) * 10

\* the first key, in insertion order, whose count is the greatest (0 for no key)
MostCommon(rounded) ==
  LET keys == {rounded[k] : k \in 1..Len(rounded)}
      Count(v) == Cardinality({k \in 1..Len(rounded) : rounded[k] = v})
      First(v) == CHOOSE k \in 1..Len(rounded) :
                    rounded[k] = v /\ \A j \in 1..(k - 1) : rounded[j] # v
      counts == [v \in keys |-> Count(v)]
      best == {v \in keys : \A w \in keys : counts[w] <= counts[v]}
  IN  IF keys = {} THEN 0
      ELSE CHOOSE v \in best : \A w \in best : First(v) <= First(w)

\* the lowest tempo in place of the default
SilentEstimate == MinBPM * Scale

\* return 120: the default tempo
DefaultEstimate == DefaultBPM * Scale

\* the estimate as computed, whatever its value
ClampNone(bpm) == bpm

\* Math.max(60, Math.min(200, bpm))
ClampBPM(bpm) == Max(MinBPM * Scale, Min(MaxBPM * Scale, bpm))

EstimateBPM(peaks, sampleRate) ==
  IF Len(peaks) < 2 THEN DefaultEstimate
  ELSE LET intervals == [i \in 1..(Len(peaks) - 1) |-> peaks[i + 1] - peaks[i]]
           rounded == [i \in 1..Len(intervals) |-> RoundToTen(intervals[i])]
           mostCommonInterval == MostCommon(rounded)
       IN  IF mostCommonInterval = 0 THEN DefaultEstimate
           ELSE LET bpm == MulDivFloor(SecondsPerMinute * sampleRate, Scale,
                                       mostCommonInterval * HopSize)
                IN  ClampBPM(bpm)

\* (peak / sampleRate) * (onsetLength / filteredLength), held as <<n, d1, d2>> for the
\* fraction n / (d1 * d2) in lowest terms
BeatTime(peak, sampleRate, onsetLength, filteredLength) ==
  LET g1 == Gcd(onsetLength, filteredLength)
      a == onsetLength \div g1
      b == filteredLength \div g1
      g2 == Gcd(peak, sampleRate)
      p == peak \div g2
      r == sampleRate \div g2
      g3 == Gcd(p, b)
      g4 == Gcd(a, r)
  IN  <<(p \div g3) * (a \div g4), r \div g4, b \div g3>>

\* tempo: bpm / 60
Tempo(bpm) == RDiv(bpm, SecondsPerMinute)

\* confidence: Math.min(peaks.length / 100, 1.0)
Confidence(peakCount) == Min(RDiv(peakCount * Scale, PeaksForFullConfidence), Scale)

\* detectBeats with its locals; the result is the record the code returns
DetectBeatsLocals(audioBuffer) ==
  LET channelData == GetChannelData(audioBuffer, 0)
      sampleRate == audioBuffer.sampleRate
      filtered == HighPassFilter(channelData, CutoffFreq, sampleRate)
      onsetStrength == CalculateOnsetStrength(filtered, sampleRate)
      peaks == FindPeaks(onsetStrength, PeakThreshold)
      bpm == EstimateBPM(peaks, sampleRate)
  IN  [onsetStrength |-> onsetStrength,
       peaks |-> peaks,
       result |-> [bpm |-> bpm,
                   \* onsetStrength.length is numFrames and filtered.length is data.length
                   beats |-> [k \in 1..Len(peaks) |->
                                BeatTime(peaks[k], sampleRate, Len(channelData) \div HopSize,
                                         Len(channelData))],
                   tempo |-> Tempo(bpm),
                   confidence |-> Confidence(Len(peaks))]]

DetectBeats(audioBuffer) == DetectBeatsLocals(audioBuffer).result

(***************************************************************************)
(* IEEE 754 values on top of the fixed-point numbers                       *)
(***************************************************************************)
Infinity == 2000000000
NaN == 2000000001

IsNaN(x) == x = NaN
IsFinite(x) == x > -Infinity /\ x < Infinity
Sign(x) == IF x < 0 THEN -1 ELSE 1

FNeg(x) == IF IsNaN(x) THEN NaN ELSE -x
FAbs(x) == IF IsNaN(x) THEN NaN ELSE Abs(x)

FAdd(a, b) ==
  IF IsNaN(a) \/ IsNaN(b) THEN NaN
  ELSE IF ~IsFinite(a) THEN (IF ~IsFinite(b) /\ b # a THEN NaN ELSE a)
  ELSE IF ~IsFinite(b) THEN b
  ELSE a + b

FSub(a, b) == FAdd(a, FNeg(b))

FMul(a, b) ==
  IF IsNaN(a) \/ IsNaN(b) THEN NaN
  ELSE IF ~IsFinite(a) \/ ~IsFinite(b)
       THEN (IF a = 0 \/ b = 0 THEN NaN ELSE Sign(a) * Sign(b) * Infinity)
  ELSE RDiv(a * b, Scale)

\* a / b; a zero divisor is +0
FDiv(a, b) ==
  IF IsNaN(a) \/ IsNaN(b) THEN NaN
  ELSE IF ~IsFinite(a) THEN (IF ~IsFinite(b) THEN NaN ELSE Sign(a) * Sign(b) * Infinity)
  ELSE IF ~IsFinite(b) THEN 0
  ELSE IF b = 0 THEN (IF a = 0 THEN NaN ELSE Sign(a) * Infinity)
  ELSE Sign(b) * RDiv(a * Scale, Abs(b))

\* comparisons with NaN are false
FLt(a, b) == ~IsNaN(a) /\ ~IsNaN(b) /\ a < b
FGt(a, b) == ~IsNaN(a) /\ ~IsNaN(b) /\ a > b

\* Math.max and Math.min give NaN when an argument is NaN
MathMax(a, b) == IF IsNaN(a) \/ IsNaN(b) THEN NaN ELSE Max(a, b)
MathMin(a, b) == IF IsNaN(a) \/ IsNaN(b) THEN NaN ELSE Min(a, b)

AllFinite(channels) ==
  \A c \in 1..Len(channels) : \A i \in 1..Len(channels[c]) : IsFinite(channels[c][i])

(***************************************************************************)
(* AudioContext.createBuffer                                               *)
(***************************************************************************)
\* NotSupportedError for a channel count or a length that is not positive
CreateBufferThrows(numberOfChannels, length, sampleRate) ==
  numberOfChannels <= 0 \/ length <= 0 \/ sampleRate <= 0

CreateBuffer(numberOfChannels, length, sampleRate) ==
  [sampleRate |-> sampleRate,
   channels |-> [c \in 1..numberOfChannels |-> [i \in 1..length |-> 0]]]

(***************************************************************************)
(* timeStretch                                                             *)
(***************************************************************************)
MixerSampleRate == 44100
WindowSize == 2048

\* 0.5 * (1 - cos(2 * PI * j / windowSize)), which is sin(PI * j / windowSize)^2, the sine
\* by Bhaskara's fraction 16 q / (5 - 4 q), q = j (windowSize - j) / windowSize^2
Hann(j) ==
  LET q == RDiv(j * (WindowSize - j) * Scale, WindowSize * WindowSize)
      sine == FDiv(16 * q, 5 * Scale - 4 * q)
  IN  FMul(sine, sine)

\* Math.ceil in the place of Math.floor
StretchedLengthCeiling(inputLength, stretchFactor) ==
  IF IsFinite(stretchFactor) /\ stretchFactor > 0
  THEN -MulDivFloor(-inputLength, Scale, stretchFactor)
  ELSE -1

\* Math.floor(inputLength / stretchFactor); -1 when that is NaN, infinite or negative
StretchedLength(inputLength, stretchFactor) ==
  IF IsFinite(stretchFactor) /\ stretchFactor > 0
  THEN MulDivFloor(inputLength, Scale, stretchFactor)
  ELSE -1

\* every turn of the loop adds its grain, wherever its window ends in the source
GrainStartsUnguarded(inputLength, outputLength, stretchFactor) ==
  {i \in 0..Max(0, outputLength - WindowSize - 1) :
     i % HopSize = 0 /\ i < outputLength - WindowSize}

\* inputData[index]: undefined past the end, which is NaN once multiplied
ReadSample(inputData, index) ==
  IF 0 <= index /\ index < Len(inputData) THEN inputData[index + 1] ELSE NaN

\* the grain starts i of the loop: 0, hopSize, ... below outputLength - windowSize, of which
\* those with sourceIndex + windowSize < inputLength are added
GrainStarts(inputLength, outputLength, stretchFactor) ==
  {i \in 0..Max(0, outputLength - WindowSize - 1) :
     /\ i % HopSize = 0
     /\ i < outputLength - WindowSize
     /\ MulDivFloor(i, stretchFactor, Scale) + WindowSize < inputLength}

RECURSIVE SumGrains(_, _, _, _)
SumGrains(inputData, stretchFactor, starts, k) ==
  IF starts = {} THEN 0
  ELSE LET i == CHOOSE x \in starts : \A y \in starts : x <= y
           j == k - i
           sourceIndex == MulDivFloor(i, stretchFactor, Scale)
           sample == FMul(ReadSample(inputData, sourceIndex + j), Hann(j))
       IN  FAdd(FMul(sample, 500),
                SumGrains(inputData, stretchFactor, starts \ {i}, k))

\* outputData after the overlap-add loop
StretchData(inputData, outputLength, stretchFactor) ==
  LET starts == GrainStarts(Len(inputData), outputLength, stretchFactor)
  IN  [n \in 1..outputLength |->
         SumGrains(inputData, stretchFactor,
                   {i \in starts : i <= n - 1 /\ n - 1 < i + WindowSize}, n - 1)]

\* a pass-through band that takes in its two edges: <= 0.05
UnstretchedAtEdge(stretchFactor) == ~FGt(FAbs(FSub(stretchFactor, Scale)), 50) /\ ~IsNaN(stretchFactor)

\* Math.abs(stretchFactor - 1.0) < 0.05
Unstretched(stretchFactor) == FLt(FAbs(FSub(stretchFactor, Scale)), 50)

\* a timeStretch that clears the buffer it is given and returns it
TimeStretchInPlace(h, buffer, stretchFactor) ==
  [threw |-> FALSE, buffer |-> buffer,
   heap |-> [h EXCEPT ![buffer].channels[1] = [n \in 1..Len(@) |-> 0]]]

\* timeStretch(buffer, stretchFactor) on the heap h: the buffer returned (the argument itself
\* or a new one) and the heap afterwards; threw when createBuffer rejects the length
TimeStretch(h, buffer, stretchFactor) ==
  IF Unstretched(stretchFactor)
  THEN [threw |-> FALSE, buffer |-> buffer, heap |-> h]
  ELSE LET inputData == GetChannelData(h[buffer], 0)
           outputLength == StretchedLength(Len(inputData), stretchFactor)
       IN  IF CreateBufferThrows(NumberOfChannels(h[buffer]), outputLength, h[buffer].sampleRate)
           THEN [threw |-> TRUE, buffer |-> 0, heap |-> h]
           ELSE LET outputBuffer == CreateBuffer(NumberOfChannels(h[buffer]), outputLength,
                                                 h[buffer].sampleRate)
                    outputData == StretchData(inputData, outputLength, stretchFactor)
                IN  [threw |-> FALSE,
                     buffer |-> Len(h) + 1,
                     heap |-> Append(h, [outputBuffer EXCEPT !.channels[1] = outputData])]

(***************************************************************************)
(* mixTracks                                                               *)
(***************************************************************************)
\* params.crossfadeTime is held in microseconds, the other parameters in units of 1 / Scale
TimeScale == 1000000

\* Math.floor(params.crossfadeTime * this.sampleRate)
CrossfadeSamples(params) == MulDivFloor(params.crossfadeTime, MixerSampleRate, TimeScale)

\* Track B started half way into Track A
Track2StartAtHalf(buffer1) == Length(buffer1) \div 2

\* Math.floor(buffer1.length * 0.3)
Track2Start(buffer1) == (Length(buffer1) * 3) \div 10

\* a linear fade: the clamped position itself
LinearStep(t) == MathMax(0, MathMin(Scale, t))

\* lines 332 to 335
SmoothStep(t) ==
  LET c == MathMax(0, MathMin(Scale, t))
  IN  FMul(FMul(c, c), FSub(3 * Scale, FMul(2 * Scale, c)))

\* a window that opens at Track B's start
InCrossfadeFromStart(i, track2Start, crossfadeSamples) ==
  /\ i >= track2Start
  /\ i <= track2Start + crossfadeSamples

\* i >= crossfadeStart && i <= crossfadeEnd, the two bounds being track2Start -+ crossfadeSamples / 2
InCrossfade(i, track2Start, crossfadeSamples) ==
  /\ 2 * i >= 2 * track2Start - crossfadeSamples
  /\ 2 * i <= 2 * track2Start + crossfadeSamples

\* the two samples written left and right with the gains swapped between them
PanSwapped(a, b) ==
  [left |-> FAdd(FMul(FAdd(a, b), 700), FMul(b, 300)),
   right |-> FAdd(FMul(FAdd(a, b), 700), FMul(a, 300))]

\* lines 165 to 169: leftOut[i] and rightOut[i] from sample1 * gain1 and sample2 * gain2
Pan(a, b) ==
  LET mixedSample == FAdd(a, b)
  IN  [left |-> FAdd(FMul(mixedSample, 700), FMul(a, 300)),
       right |-> FAdd(FMul(mixedSample, 700), FMul(b, 300))]

\* one turn of the loop of mixTracks, for output index i (of the code)
MixFrame(buffer1, buffer2, i, params) ==
  LET crossfadeSamples == CrossfadeSamples(params)
      track1Data == GetChannelData(buffer1, 0)
      track2Data == GetChannelData(buffer2, 0)
      track1Start == 0
      track2Start == Track2Start(buffer1)
      sample1 == IF i >= track1Start /\ i - track1Start < Len(track1Data)
                 THEN track1Data[i - track1Start + 1] ELSE 0
      sample2 == IF i >= track2Start /\ i - track2Start < Len(track2Data)
                 THEN track2Data[i - track2Start + 1] ELSE 0
      fading == InCrossfade(i, track2Start, crossfadeSamples)
      \* (i - crossfadeStart) / crossfadeSamples
      fadePosition == FDiv(2 * i - 2 * track2Start + crossfadeSamples, 2 * crossfadeSamples)
      fadeFactor == SmoothStep(fadePosition)
      gain1 == IF fading THEN FMul(params.volume1, FSub(Scale, fadeFactor)) ELSE params.volume1
      gain2 == IF fading THEN FMul(params.volume2, fadeFactor) ELSE params.volume2
      out == Pan(FMul(sample1, gain1), FMul(sample2, gain2))
  IN  [sample1 |-> sample1, sample2 |-> sample2, fading |-> fading,
       fadePosition |-> IF fading THEN fadePosition ELSE 0,
       fadeFactor |-> IF fading THEN fadeFactor ELSE 0,
       gain1 |-> gain1, gain2 |-> gain2, left |-> out.left, right |-> out.right]

\* the locals of every turn of the loop of mixTracks
MixFrames(buffer1, buffer2, length, params) ==
  TypedArray([n \in 1..length |-> MixFrame(buffer1, buffer2, n - 1, params)])

\* leftOut and rightOut after mixTracks, as <<leftOut, rightOut>>
MixTracks(buffer1, buffer2, leftOut, rightOut, params) ==
  LET frames == MixFrames(buffer1, buffer2, Len(leftOut), params)
  IN  << [n \in 1..Len(leftOut) |-> frames[n].left],
         [n \in 1..Len(rightOut) |-> frames[n].right] >>

(***************************************************************************)
(* applyEffects: applyEQ, applyCompression, applyReverb, normalize, each   *)
(* rewriting the Float32Array it is given                                  *)
(***************************************************************************)
CompressionThreshold == 700
MakeupGain == 1200
Headroom == 950
ReverbFeedback == 300
\* the delays of applyReverb in milliseconds
DelayTimes == <<30, 50, 70, 90>>

\* data[lo..hi] after the loop of applyEQ, entered with the two accumulators
RECURSIVE EQRange(_, _, _, _, _, _, _)
EQRange(data, lo, hi, bassAccum, trebleAccum, bassGain, trebleGain) ==
  IF lo = hi
  THEN LET bass == FAdd(bassAccum, FMul(10, FSub(data[lo], bassAccum)))
           trebleAcc == FAdd(trebleAccum, FMul(990, FSub(data[lo], trebleAccum)))
           treble == FSub(data[lo], trebleAcc)
       IN  [out |-> << FAdd(FAdd(FMul(bass, bassGain), FMul(treble, trebleGain)),
                            FMul(data[lo], 500)) >>,
            bassAccum |-> bass, trebleAccum |-> trebleAcc]
  ELSE LET mid == (lo + hi) \div 2
           left == EQRange(data, lo, mid, bassAccum, trebleAccum, bassGain, trebleGain)
           right == EQRange(data, mid + 1, hi, left.bassAccum, left.trebleAccum,
                            bassGain, trebleGain)
       IN  [out |-> left.out \o right.out,
            bassAccum |-> right.bassAccum, trebleAccum |-> right.trebleAccum]

ApplyEQ(data, bassBoost, trebleBoost) ==
  IF Len(data) = 0 THEN data
  ELSE EQRange(data, 1, Len(data), 0, 0, FAdd(Scale, bassBoost), FAdd(Scale, trebleBoost)).out

\* a stage that multiplies the excess by the ratio
ApplyExpansion(data, ratio) ==
  [n \in 1..Len(data) |->
     LET abs == FAbs(data[n])
     IN  IF FGt(abs, CompressionThreshold)
         THEN FMul(FMul(FDiv(data[n], abs),
                        FAdd(CompressionThreshold, FMul(FSub(abs, CompressionThreshold), ratio))),
                   MakeupGain)
         ELSE FMul(data[n], MakeupGain)]

ApplyCompression(data, ratio) ==
  [n \in 1..Len(data) |->
     LET abs == FAbs(data[n])
     IN  IF FGt(abs, CompressionThreshold)
         THEN LET excess == FSub(abs, CompressionThreshold)
                  compressedExcess == FDiv(excess, ratio)
                  newAbs == FAdd(CompressionThreshold, compressedExcess)
              IN  FMul(FMul(FDiv(data[n], abs), newAbs), MakeupGain)
         ELSE FMul(data[n], MakeupGain)]

\* delayBuffer[delayIndex] as read at turn i (of the code) of the loop of one delay line
RECURSIVE Delayed(_, _, _)
Delayed(data, delaySamples, i) ==
  IF i < delaySamples THEN 0
  ELSE FAdd(data[i - delaySamples + 1],
            FMul(Delayed(data, delaySamples, i - delaySamples), ReverbFeedback))

ApplyReverb(data, level) ==
  LET wetGain == FMul(level, 300)
      dryGain == FSub(Scale, wetGain)
      Wet(d, i) ==
        FDiv(FMul(Delayed(data, (DelayTimes[d] * MixerSampleRate) \div 1000, i), wetGain),
             Len(DelayTimes) * Scale)
      processed == [n \in 1..Len(data) |->
                      FAdd(FAdd(FAdd(Wet(1, n - 1), Wet(2, n - 1)), Wet(3, n - 1)), Wet(4, n - 1))]
  IN  [n \in 1..Len(data) |-> FAdd(FMul(data[n], dryGain), processed[n])]

\* Math.max over Math.abs(data[i]) for lo <= i <= hi, by halves
RECURSIVE PeakRange(_, _, _)
PeakRange(data, lo, hi) ==
  IF lo > hi THEN 0
  ELSE IF lo = hi THEN FAbs(data[lo])
  ELSE LET mid == (lo + hi) \div 2
       IN  MathMax(PeakRange(data, lo, mid), PeakRange(data, mid + 1, hi))

\* max after the first loop of normalize, entered at index n with max
PeakOf(data, n, max) == MathMax(max, PeakRange(data, n, Len(data)))

\* data[i] / max: the peak brought to 1.0, no headroom
ScaledToFullScale(x, max) ==
  IF IsFinite(x) /\ IsFinite(max) /\ max > 0 THEN RDiv(x * Scale, max) ELSE x

\* data[i] * scale, scale being the double 0.95 / max: rounded once, at the store
Scaled(x, max) ==
  IF IsNaN(x) THEN NaN
  ELSE IF ~IsFinite(max) THEN FMul(x, 0)
  ELSE IF ~IsFinite(x) THEN x
  ELSE RDiv(x * Headroom, max)

Normalize(data) ==
  LET max == PeakOf(data, 1, 0)
  IN  IF FGt(max, Scale)
      THEN [n \in 1..Len(data) |-> Scaled(data[n], max)]
      ELSE data

\* one peak over both channels, and both scaled by 0.95 over it
NormalizeJointly(channels) ==
  LET max == MathMax(PeakOf(channels[1], 1, 0), PeakOf(channels[2], 1, 0))
  IN  IF FGt(max, Scale)
      THEN [c \in 1..2 |-> [n \in 1..Len(channels[c]) |-> Scaled(channels[c][n], max)]]
      ELSE channels

\* this.normalize(leftChannel); this.normalize(rightChannel)
NormalizeChannels(channels) == [c \in 1..2 |-> Normalize(channels[c])]

\* the two channels after each stage of applyEffects
ApplyEffects(channels, params) ==
  LET eq == [c \in 1..2 |-> ApplyEQ(channels[c], params.bassBoost, params.trebleBoost)]
      compressed == [c \in 1..2 |-> ApplyCompression(eq[c], params.compressionRatio)]
      reverbed == IF FGt(params.reverbLevel, 0)
                  THEN [c \in 1..2 |-> ApplyReverb(compressed[c], params.reverbLevel)]
                  ELSE compressed
      normalized == NormalizeChannels(reverbed)
  IN  [eq |-> eq, compressed |-> compressed, reverbed |-> reverbed, normalized |-> normalized]

(***************************************************************************)
(* audioBufferToWav: a DataView over a zeroed ArrayBuffer, a byte sequence *)
(* here; byte offset k of the code is index k + 1                          *)
(***************************************************************************)
HeaderSize == 44
RiffOverhead == 36
FmtChunkSize == 16
PcmFormat == 1
BitsPerSample == 16
PcmScale == 32767

\* the bytes of view with the bytes of seq written from byteOffset on
Put(view, byteOffset, seq) ==
  [k \in 1..Len(view) |->
     IF k - 1 >= byteOffset /\ k - 1 < byteOffset + Len(seq) THEN seq[k - byteOffset] ELSE view[k]]

\* the two and the four bytes of an unsigned integer, lowest byte first
Bytes16(value) == << value % 256, (value \div 256) % 256 >>
Bytes32(value) ==
  << value % 256, (value \div 256) % 256, (value \div 65536) % 256, (value \div 16777216) % 256 >>
Reversed(seq) == [k \in 1..Len(seq) |-> seq[Len(seq) + 1 - k]]

\* a setUint32 that writes the highest byte first whatever it is asked
SetUint32BigEndian(view, byteOffset, value, littleEndian) ==
  Put(view, byteOffset, Reversed(Bytes32(value)))

\* view.setUint16, view.setUint32
SetUint16(view, byteOffset, value, littleEndian) ==
  Put(view, byteOffset, IF littleEndian THEN Bytes16(value) ELSE Reversed(Bytes16(value)))
SetUint32(view, byteOffset, value, littleEndian) ==
  Put(view, byteOffset, IF littleEndian THEN Bytes32(value) ELSE Reversed(Bytes32(value)))

\* the integer setInt16 stores for the number value / Scale: NaN is 0, the fraction is
\* dropped, and the integer wraps into 16 bits
ToInt16(value) ==
  IF ~IsFinite(value) THEN 0
  ELSE LET truncated == IF value >= 0 THEN value \div Scale ELSE -((-value) \div Scale)
       IN  ((truncated + 32768) % 65536) - 32768

\* view.setInt16: the two's complement of the integer
SetInt16(view, byteOffset, value, littleEndian) ==
  SetUint16(view, byteOffset, (ToInt16(value) + 65536) % 65536, littleEndian)

\* writeString: view.setUint8 of every char code of the string
WriteString(view, offset, codes) == Put(view, offset, codes)

\* a sample scaled by 0x8000 in the place of 0x7FFF
PcmSampleBy32768(x) ==
  LET sample == MathMax(-Scale, MathMin(Scale, x))
  IN  IF IsNaN(sample) THEN NaN ELSE sample * (PcmScale + 1)

\* sample * 0x7FFF of the sample clamped by Math.max(-1, Math.min(1, ...))
PcmSample(x) ==
  LET sample == MathMax(-Scale, MathMin(Scale, x))
  IN  IF IsNaN(sample) THEN NaN ELSE sample * PcmScale

\* lines 448 to 460: the header, written into the zeroed view
WavHeader(view, length, numberOfChannels, sampleRate) ==
  LET v1 == WriteString(view, 0, <<82, 73, 70, 70>>)
      v2 == SetUint32(v1, 4, RiffOverhead + length * numberOfChannels * 2, TRUE)
      v3 == WriteString(v2, 8, <<87, 65, 86, 69>>)
      v4 == WriteString(v3, 12, <<102, 109, 116, 32>>)
      v5 == SetUint32(v4, 16, FmtChunkSize, TRUE)
      v6 == SetUint16(v5, 20, PcmFormat, TRUE)
      v7 == SetUint16(v6, 22, numberOfChannels, TRUE)
      v8 == SetUint32(v7, 24, sampleRate, TRUE)
      v9 == SetUint32(v8, 28, sampleRate * numberOfChannels * 2, TRUE)
      v10 == SetUint16(v9, 32, numberOfChannels * 2, TRUE)
      v11 == SetUint16(v10, 34, BitsPerSample, TRUE)
      v12 == WriteString(v11, 36, <<100, 97, 116, 97>>)
  IN  SetUint32(v12, 40, length * numberOfChannels * 2, TRUE)

\* lines 463 to 470: turn t of the two loops (frame t \div channels, channel t % channels)
\* writes at offset 44 + 2 t, offset having grown by 2 in every turn before it
WavSamples(view, buffer) ==
  LET numberOfChannels == NumberOfChannels(buffer)
      Turn(byteOffset) == (byteOffset - HeaderSize) \div 2
      Written(t) ==
        SetInt16(<<0, 0>>, 0,
                 PcmSample(GetChannelData(buffer, t % numberOfChannels)[(t \div numberOfChannels) + 1]),
                 TRUE)
  IN  [k \in 1..Len(view) |->
         IF k - 1 >= HeaderSize /\ Turn(k - 1) < Length(buffer) * numberOfChannels
         THEN Written(Turn(k - 1))[((k - 1 - HeaderSize) % 2) + 1]
         ELSE view[k]]

\* the Blob audioBufferToWav returns, and the local offset as the two loops leave it
AudioBufferToWav(buffer) ==
  LET length == Length(buffer)
      numberOfChannels == NumberOfChannels(buffer)
      arrayBuffer == [k \in 1..(HeaderSize + length * numberOfChannels * 2) |-> 0]
      header == WavHeader(arrayBuffer, length, numberOfChannels, buffer.sampleRate)
  IN  [type |-> "audio/wav", bytes |-> TypedArray(WavSamples(header, buffer)),
       offset |-> HeaderSize + 2 * (length * numberOfChannels)]

(***************************************************************************)
(* The same encoding on samples as a Float32Array holds them: a sample is  *)
(* [negative, mantissa, shift], the number mantissa / 2^shift with         *)
(* 2^23 <= mantissa < 2^24, or 0 with mantissa 0                           *)
(***************************************************************************)
RECURSIVE Pow2(_)
Pow2(n) == IF n <= 0 THEN 1 ELSE 2 * Pow2(n - 1)

\* the store into a Float32Array of the number (m + r / den) / 2^s: binary digits are taken
\* until the mantissa has 24 bits, and the rest rounds to nearest, ties to even
RECURSIVE Fround(_, _, _, _)
Fround(r, den, m, s) ==
  IF m = 0 /\ r = 0 THEN [mantissa |-> 0, shift |-> 0]
  ELSE IF m >= Pow2(23)
  THEN LET up == 2 * r > den \/ (2 * r = den /\ m % 2 = 1)
           rounded == IF up THEN m + 1 ELSE m
       IN  IF rounded = Pow2(24) THEN [mantissa |-> Pow2(23), shift |-> s - 1]
           ELSE [mantissa |-> rounded, shift |-> s]
  ELSE Fround((2 * r) % den, den, 2 * m + ((2 * r) \div den), s + 1)

\* the Float32Array element that holds num / den, 0 <= num <= den
Float32Of(negative, num, den) ==
  LET f == Fround(num % den, den, num \div den, 0)
  IN  [negative |-> negative /\ f.mantissa # 0, mantissa |-> f.mantissa, shift |-> f.shift]

\* Math.trunc of a Float32 magnitude of at most 1.0 times an integer below 2^15: the double
\* product of a 24-bit and a 15-bit integer is exact
TruncatedProduct(x, k) ==
  IF x.mantissa = 0 THEN 0
  ELSE (((x.mantissa \div 4096) * k) + (((x.mantissa % 4096) * k) \div 4096))
         \div Pow2(x.shift - 12)

\* the integer setInt16 stores for sample * 0x7FFF, sample clamped to [-1, 1]
PcmOfFloat32(x) ==
  LET magnitude == IF x.shift < 24 /\ x.mantissa > Pow2(x.shift) THEN PcmScale
                   ELSE TruncatedProduct(x, PcmScale)
  IN  IF x.negative THEN -magnitude ELSE magnitude

(***************************************************************************)
(* createMashup: three steps, cut at its two awaits                        *)
(***************************************************************************)
\* params.tempo / beats.tempo
StretchFactor(params, beats) == FDiv(params.tempo, beats.tempo)

\* an output as long as the first track and the crossfade
MashupOutputLengthOfFirst(length1, length2, params) == length1 + CrossfadeSamples(params)

\* Math.max(adjustedTrack1.length, adjustedTrack2.length) + Math.floor(crossfadeTime * sampleRate)
MashupOutputLength(length1, length2, params) == Max(length1, length2) + CrossfadeSamples(params)

NoBeats == [bpm |-> 0, beats |-> <<>>, tempo |-> 0, confidence |-> -1]
NotRun == [onsetStrength |-> <<>>, peaks |-> <<>>, result |-> NoBeats]

NewCall(track1, track2, params) ==
  [pc |-> "start", track1 |-> track1, track2 |-> track2, params |-> params,
   beats1 |-> NoBeats, beats2 |-> NoBeats, factor1 |-> 0, factor2 |-> 0,
   adjustedTrack1 |-> 0, adjustedTrack2 |-> 0, outputBuffer |-> 0,
   error |-> "", log |-> <<>>, mix |-> <<>>]

\* what a stage did: the buffer it was given, that buffer's samples before and after the
\* stage, and the buffer it returned (0 for none)
LogEntry(stage, h, hAfter, input, output) ==
  [stage |-> stage, input |-> input, before |-> h[input].channels,
   after |-> hAfter[input].channels, output |-> output, fresh |-> output > Len(h)]

\* lines 91 to 95: both detectBeats calls and the first timeStretch, up to the first await,
\* on the buffers of h
MashupStarted(h, call) ==
  LET beats1 == DetectBeats(h[call.track1])
      beats2 == DetectBeats(h[call.track2])
      factor == StretchFactor(call.params, beats1)
      ts == TimeStretch(h, call.track1, factor)
  IN  [heap |-> ts.heap,
       call |-> [call EXCEPT !.pc = IF ts.threw THEN "failed" ELSE "stretch2",
                             !.error = IF ts.threw THEN "NotSupportedError" ELSE "",
                             !.beats1 = beats1, !.beats2 = beats2, !.factor1 = factor,
                             !.adjustedTrack1 = ts.buffer,
                             !.log = << LogEntry("detectBeats", h, h, call.track1, 0),
                                        LogEntry("detectBeats", h, h, call.track2, 0) >>
                                     \o (IF ts.threw THEN <<>>
                                         ELSE << LogEntry("timeStretch", h, ts.heap,
                                                          call.track1, ts.buffer) >>)]]

CreateMashupStart(c) ==
  /\ calls[c].pc = "start"
  /\ LET started == MashupStarted(heap, calls[c])
     IN  /\ heap' = started.heap
         /\ calls' = [calls EXCEPT ![c] = started.call]
  /\ UNCHANGED <<beatVars, lengths, frame, hookVars>>

\* line 96: the second timeStretch, up to the second await
CreateMashupStretch2(c) ==
  /\ calls[c].pc = "stretch2"
  /\ LET call == calls[c]
         factor == StretchFactor(call.params, call.beats2)
         ts == TimeStretch(heap, call.track2, factor)
     IN  /\ heap' = ts.heap
         /\ calls' = [calls EXCEPT ![c] =
              [call EXCEPT !.pc = IF ts.threw THEN "failed" ELSE "mix",
                           !.error = IF ts.threw THEN "NotSupportedError" ELSE "",
                           !.factor2 = factor,
                           !.adjustedTrack2 = ts.buffer,
                           !.log = @ \o (IF ts.threw THEN <<>>
                                         ELSE << LogEntry("timeStretch", heap, ts.heap,
                                                          call.track2, ts.buffer) >>)]]
  /\ UNCHANGED <<beatVars, lengths, frame, hookVars>>

\* lines 98 to 119: the output buffer, mixTracks, applyEffects and the return
CreateMashupMix(c) ==
  /\ calls[c].pc = "mix"
  /\ LET call == calls[c]
         adjustedTrack1 == heap[call.adjustedTrack1]
         adjustedTrack2 == heap[call.adjustedTrack2]
         outputLength == MashupOutputLength(Length(adjustedTrack1), Length(adjustedTrack2),
                                            call.params)
     IN  IF CreateBufferThrows(2, outputLength, MixerSampleRate)
         THEN /\ calls' = [calls EXCEPT ![c].pc = "failed", ![c].error = "NotSupportedError"]
              /\ UNCHANGED heap
         ELSE LET outputBuffer == CreateBuffer(2, outputLength, MixerSampleRate)
                  id == Len(heap) + 1
                  mixed == MixTracks(adjustedTrack1, adjustedTrack2,
                                     GetChannelData(outputBuffer, 0),
                                     GetChannelData(outputBuffer, 1), call.params)
                  fx == ApplyEffects(mixed, call.params)
                  With(ch) == Append(heap, [outputBuffer EXCEPT !.channels = ch])
              IN  /\ heap' = With(fx.normalized)
                  /\ calls' = [calls EXCEPT ![c] =
                       [call EXCEPT
                          !.pc = "done",
                          !.outputBuffer = id,
                          !.mix = MixFrames(adjustedTrack1, adjustedTrack2, outputLength,
                                            call.params),
                          !.log = @ \o
                            << LogEntry("mixTracks", heap, heap, call.adjustedTrack1, 0),
                               LogEntry("mixTracks", heap, heap, call.adjustedTrack2, 0),
                               LogEntry("applyEQ", With(mixed), With(fx.eq), id, 0),
                               LogEntry("applyCompression", With(fx.eq), With(fx.compressed),
                                        id, 0) >>
                            \o (IF FGt(call.params.reverbLevel, 0)
                                THEN << LogEntry("applyReverb", With(fx.compressed),
                                                 With(fx.reverbed), id, 0) >>
                                ELSE <<>>)
                            \o << LogEntry("normalize", With(fx.reverbed),
                                           With(fx.normalized), id, 0) >>]]
  /\ UNCHANGED <<beatVars, lengths, frame, hookVars>>

\* lines 91 to 100 on two tracks given by their lengths and their detected BPM: the two
\* factors, the lengths timeStretch returns and the length of the output buffer
NoLengths ==
  [pc |-> "idle", length1 |-> 0, length2 |-> 0, beats1 |-> NoBeats, beats2 |-> NoBeats,
   params |-> [tempo |-> 0, crossfadeTime |-> 0], factor1 |-> 0, factor2 |-> 0,
   adjustedLength1 |-> 0, adjustedLength2 |-> 0, outputLength |-> 0]

\* the length of the buffer timeStretch returns, -1 when createBuffer throws
AdjustedLength(inputLength, stretchFactor) ==
  IF Unstretched(stretchFactor) THEN inputLength
  ELSE LET outputLength == StretchedLength(inputLength, stretchFactor)
       IN  IF CreateBufferThrows(1, outputLength, MixerSampleRate) THEN -1 ELSE outputLength

CreateMashupLengths ==
  /\ lengths.pc = "start"
  /\ LET factor1 == StretchFactor(lengths.params, lengths.beats1)
         factor2 == StretchFactor(lengths.params, lengths.beats2)
         adjusted1 == AdjustedLength(lengths.length1, factor1)
         adjusted2 == AdjustedLength(lengths.length2, factor2)
         outputLength == MashupOutputLength(adjusted1, adjusted2, lengths.params)
         threw == \/ adjusted1 < 0
                  \/ adjusted2 < 0
                  \/ CreateBufferThrows(2, outputLength, MixerSampleRate)
     IN  lengths' = [lengths EXCEPT !.pc = IF threw THEN "failed" ELSE "done",
                                    !.factor1 = factor1, !.factor2 = factor2,
                                    !.adjustedLength1 = adjusted1,
                                    !.adjustedLength2 = adjusted2,
                                    !.outputLength = IF threw THEN 0 ELSE outputLength]
  /\ UNCHANGED <<beatVars, mixVars, frame, hookVars>>

(***************************************************************************)
(* One createMashup call on two short tracks                               *)
(***************************************************************************)
MaxLength == 3
TrackLengths == {0} \cup 2..MaxLength
Tempos == {2 * Scale, 4 * Scale}
CrossfadeTimes == {-100, 0, 50}
CompressionRatios == {0, Scale, 4 * Scale}
ReverbLevels == {0, 300}

\* n samples of amplitude 1.0, of one sign or of alternating signs
TrackData(n, alternating) ==
  [i \in 1..n |-> IF alternating /\ i % 2 = 0 THEN -Scale ELSE Scale]

TrackDatas == {TrackData(n, a) : n \in TrackLengths, a \in BOOLEAN}

\* <<volume1, volume2>>: in range, with a negative volume, above the range
VolumePairs == {<<Scale, Scale>>, <<800, -500>>, <<2 * Scale, Scale>>}

ParamsSet ==
  {[crossfadeTime |-> x, tempo |-> t, volume1 |-> v[1], volume2 |-> v[2],
    bassBoost |-> 200, trebleBoost |-> 100, reverbLevel |-> r, compressionRatio |-> k] :
     x \in CrossfadeTimes, t \in Tempos, v \in VolumePairs, r \in ReverbLevels,
     k \in CompressionRatios}

\* no method called on its own
\* lines 20 to 27 and 29 of the hook: the state useState starts from
NoBeatInfo == [id \in {} |-> NoBeats]
InitialState ==
  [isProcessing |-> FALSE, progress |-> 0, loadedTracks |-> <<>>, mixedAudio |-> 0,
   beatInfo |-> NoBeatInfo, error |-> ""]
NoOperation == [type |-> "", progress |-> 0, message |-> ""]

NoFrame == [method |-> "", pc |-> "idle", args |-> <<>>, before |-> <<>>, result |-> <<>>]

EmptyAudio == [sampleRate |-> MixerSampleRate, length |-> 0, period |-> 0, amplitude |-> 0]

IdleBeat == audio = EmptyAudio /\ detected = NotRun
IdleMix == heap = <<>> /\ calls = <<>>
IdleLengths == lengths = NoLengths
IdleFrame == frame = NoFrame
IdleHook ==
  /\ state = InitialState
  /\ currentOperation = NoOperation
  /\ invocations = <<>>
  /\ urls = <<>>

Init ==
  /\ IdleHook
  /\ IdleBeat
  /\ IdleLengths
  /\ IdleFrame
  /\ \E d1 \in TrackDatas, d2 \in TrackDatas, kind \in {"same", "rate", "stereo"},
        params \in ParamsSet :
       /\ kind # "same" => d1 = d2
       /\ heap = << [sampleRate |-> MixerSampleRate, channels |-> <<d1>>],
                    [sampleRate |-> IF kind = "rate" THEN 48000 ELSE MixerSampleRate,
                     channels |-> IF kind = "stereo" THEN <<d2, d2>> ELSE <<d2>>] >>
       /\ calls = << NewCall(1, 2, params) >>

Next ==
  \E c \in DOMAIN calls :
    \/ CreateMashupStart(c)
    \/ CreateMashupStretch2(c)
    \/ CreateMashupMix(c)

Spec == Init /\ [][Next]_vars

(***************************************************************************)
(* detectBeats on its own: mono buffers holding a train of bursts          *)
(***************************************************************************)
MaxOnsets == 3
MaxSilentHops == 3
BurstLength == HopSize
SampleRates == {8000, 44100}
\* samples between two onsets; 22050 is 0.5 s at 44100 Hz, 0 is silence
Periods == {0, 4608, 5120, 7680, 10240, 22050, 22528}
Amplitudes == {200, Scale}
Remainders == {0, 1, 511}
\* onsets enough for more than PeaksForFullConfidence peaks
LongOnsets == PeaksForFullConfidence + MaxOnsets - 1

\* sample i (of the code) of a train: a burst of alternating +amp, -amp at every period
TrainSample(i, period, amp) ==
  IF period > 0 /\ (i % period) < BurstLength
  THEN (IF i % 2 = 0 THEN amp ELSE -amp)
  ELSE 0

Train(sampleRate, length, period, amp) ==
  [sampleRate |-> sampleRate, length |-> length, period |-> period, amplitude |-> amp]

\* the mono AudioBuffer that holds the train
BufferOf(train) ==
  [sampleRate |-> train.sampleRate,
   channels |-> << TypedArray([i \in 1..train.length |->
                                TrainSample(i - 1, train.period, train.amplitude)]) >>]

InitBeat ==
  /\ IdleHook
  /\ IdleMix
  /\ IdleLengths
  /\ IdleFrame
  /\ detected = NotRun
  /\ \E r \in SampleRates :
       \/ \E h \in 0..MaxSilentHops, e \in Remainders :
            audio = Train(r, h * HopSize + e, 0, 0)
       \/ \E h \in 0..MaxSilentHops, e \in Remainders, a \in Amplitudes :
            audio = Train(r, h * HopSize + e, 2 * HopSize, a)
       \/ \E k \in 1..MaxOnsets, p \in Periods \ {0} :
            audio = Train(r, k * p + 2 * HopSize, p, Scale)
       \/ \E p \in Periods \ {0} :
            audio = Train(r, p + 2 * HopSize, p, 200)
       \/ /\ r = 8000
          /\ audio = Train(r, LongOnsets * MinDistance * HopSize + 2 * HopSize,
                           MinDistance * HopSize, Scale)

DetectBeatsCall ==
  /\ detected = NotRun
  /\ detected' = DetectBeatsLocals(BufferOf(audio))
  /\ UNCHANGED <<audio, mixVars, lengths, frame, hookVars>>

NextBeat == DetectBeatsCall

SpecBeat == InitBeat /\ [][NextBeat]_vars

(***************************************************************************)
(* createMashup on two ten-second tracks at 44100 Hz: factors and lengths  *)
(***************************************************************************)
MaxInterval == 9
TrackFrames == 10 * MixerSampleRate
TargetTempos == {80 * Scale, 100 * Scale, 120 * Scale, 150 * Scale, 180 * Scale}

\* what detectBeats can return at 44100 Hz: the default, or the BPM of peaks 10 k hops apart
DetectableBPMs ==
  {EstimateBPM(<<>>, MixerSampleRate)}
    \cup {EstimateBPM(<<0, MinDistance * k>>, MixerSampleRate) : k \in 1..MaxInterval}

BeatsOf(bpm) == [bpm |-> bpm, beats |-> <<>>, tempo |-> Tempo(bpm), confidence |-> 0]

InitLength ==
  /\ IdleHook
  /\ IdleBeat
  /\ IdleMix
  /\ IdleFrame
  /\ \E bpm1 \in DetectableBPMs, bpm2 \in DetectableBPMs, tempo \in TargetTempos :
       lengths = [NoLengths EXCEPT !.pc = "start",
                                   !.length1 = TrackFrames, !.length2 = TrackFrames,
                                   !.beats1 = BeatsOf(bpm1), !.beats2 = BeatsOf(bpm2),
                                   !.params = [tempo |-> tempo, crossfadeTime |-> 2 * TimeScale]]

NextLength == CreateMashupLengths

SpecLength == InitLength /\ [][NextLength]_vars

(***************************************************************************)
(* timeStretch on its own: one buffer on the heap, one factor              *)
(***************************************************************************)
MaxStretchLength == 4
\* long enough for the overlap-add loop to add grains
LongLength == 2 * WindowSize + HopSize
StretchLengths == 1..MaxStretchLength \cup {LongLength}
\* 0.5, the two edges of the pass-through band and their neighbours, 1, 2, 3, and the
\* factors a division gives when it has no finite positive result
StretchFactors ==
  {500, 950, 951, Scale, 1049, 1050, 2 * Scale, 3 * Scale, 0, -Scale, Infinity, NaN}

\* n samples spread over [-1, 1]
Noise(n) == TypedArray([i \in 1..n |-> ((i * 37) % (2 * Scale + 1)) - Scale])

InitStretch ==
  /\ IdleHook
  /\ IdleBeat
  /\ IdleLengths
  /\ calls = <<>>
  /\ \E n \in StretchLengths, channels \in 1..2, rate \in {MixerSampleRate, 48000},
        factor \in StretchFactors :
       /\ n = LongLength => (channels = 1 /\ rate = MixerSampleRate)
       /\ heap = << [sampleRate |-> rate, channels |-> [c \in 1..channels |-> Noise(n)]] >>
       /\ frame = [method |-> "timeStretch", pc |-> "start",
                   args |-> [buffer |-> 1, stretchFactor |-> factor],
                   before |-> heap[1], result |-> 0]

\* await this.timeStretch(buffer, stretchFactor)
TimeStretchCall ==
  /\ frame.method = "timeStretch"
  /\ frame.pc = "start"
  /\ LET ts == TimeStretch(heap, frame.args.buffer, frame.args.stretchFactor)
     IN  /\ heap' = ts.heap
         /\ frame' = [frame EXCEPT !.pc = IF ts.threw THEN "failed" ELSE "done",
                                   !.result = ts.buffer]
  /\ UNCHANGED <<beatVars, calls, lengths, hookVars>>

NextStretch == TimeStretchCall

SpecStretch == InitStretch /\ [][NextStretch]_vars

(***************************************************************************)
(* createMashup on two tracks that timeStretch passes through: mixTracks   *)
(* and applyEffects on tracks of several lengths, and on one pair long     *)
(* enough for the delay lines of applyReverb to come round                 *)
(***************************************************************************)
MaxMixLength == 10
LongMixLength == 1400
MixLengths1 == {4, 7, MaxMixLength}
MixLengths2 == {1, 3, MaxMixLength}
\* microseconds that give -5, 0, 1, 2, 3 and 6 crossfade samples
MixCrossfadeTimes == {-100, 0, 23, 46, 69, 137}
MixVolumePairs == {<<Scale, Scale>>, <<800, 500>>}
MixReverbLevels == {-100, 0, 300}

\* the target tempo 2.0 is the tempo detectBeats gives these tracks: both factors are 1.0;
\* with the target tempo 4.0 both are 2.0
MixParams(crossfadeTime, volumes, reverbLevel, compressionRatio) ==
  [crossfadeTime |-> crossfadeTime, tempo |-> 2 * Scale,
   volume1 |-> volumes[1], volume2 |-> volumes[2],
   bassBoost |-> 200, trebleBoost |-> 100,
   reverbLevel |-> reverbLevel, compressionRatio |-> compressionRatio]

MonoTrack(data) == [sampleRate |-> MixerSampleRate, channels |-> <<data>>]

InitMix ==
  /\ IdleHook
  /\ IdleBeat
  /\ IdleLengths
  /\ IdleFrame
  /\ \/ \E n1 \in MixLengths1, n2 \in MixLengths2, x \in MixCrossfadeTimes,
           v \in MixVolumePairs, r \in MixReverbLevels, k \in CompressionRatios :
          /\ heap = << MonoTrack(Noise(n1)), MonoTrack(TypedArray(TrackData(n2, TRUE))) >>
          /\ calls = << NewCall(1, 2, MixParams(x, v, r, k)) >>
     \/ \E n1 \in MixLengths1, n2 \in MixLengths2, x \in MixCrossfadeTimes :
          /\ heap = << MonoTrack(Noise(n1)), MonoTrack(TypedArray(TrackData(n2, TRUE))) >>
          /\ calls = << NewCall(1, 2, [MixParams(x, <<Scale, Scale>>, 0, Scale)
                                          EXCEPT !.tempo = 4 * Scale]) >>
     \/ \E r \in {0, 300}, k \in {0, Scale} :
          /\ heap = << MonoTrack(TypedArray(TrackData(LongMixLength, FALSE))),
                       MonoTrack(Noise(LongMixLength)) >>
          /\ calls = << NewCall(1, 2, MixParams(46, <<Scale, Scale>>, r, k)) >>

SpecMix == InitMix /\ [][Next]_vars

(***************************************************************************)
(* applyCompression on its own: two samples and a ratio                    *)
(***************************************************************************)
MaxSampleSteps == 8
\* a grid over [-2, 2], and the threshold 0.7 with its neighbours on both sides of zero
CompressSamples ==
  {(k * 2 * Scale) \div MaxSampleSteps : k \in -MaxSampleSteps..MaxSampleSteps}
    \cup {-701, -700, -699, -1, 1, 699, 700, 701}
\* the documented ratios are those from 1 up
CompressRatios == {0, 500, Scale, 1500, 4 * Scale, 20 * Scale}

InitCompress ==
  /\ IdleHook
  /\ IdleBeat
  /\ IdleMix
  /\ IdleLengths
  /\ \E x \in CompressSamples, y \in CompressSamples, ratio \in CompressRatios :
       frame = [method |-> "applyCompression", pc |-> "start",
                args |-> [data |-> <<x, y>>, ratio |-> ratio],
                before |-> <<x, y>>, result |-> <<>>]

\* this.applyCompression(data, ratio): result is data as the call leaves it
ApplyCompressionCall ==
  /\ frame.method = "applyCompression"
  /\ frame.pc = "start"
  /\ frame' = [frame EXCEPT !.pc = "done",
                            !.result = ApplyCompression(frame.args.data, frame.args.ratio)]
  /\ UNCHANGED <<beatVars, mixVars, lengths, hookVars>>

NextCompress == ApplyCompressionCall

SpecCompress == InitCompress /\ [][NextCompress]_vars

(***************************************************************************)
(* audioBufferToWav on its own                                             *)
(***************************************************************************)
MaxWavFrames == 3
MaxWavChannels == 2
LongWavFrames == 150
WavFrames == 1..MaxWavFrames \cup {LongWavFrames}
WavSampleRates == {8000, MixerSampleRate, 48000}
\* samples inside [-1, 1], on its edges, outside it, and the two that are no number
WavSampleValues == {-1500, -Scale, -999, -1, 0, 500, Scale, Infinity, NaN}

\* channel ch holds x and y in turn, starting with x on the even channels
WavBuffer(n, channels, rate, x, y) ==
  [sampleRate |-> rate,
   channels |-> [ch \in 1..channels |->
                   TypedArray([i \in 1..n |-> IF (i + ch) % 2 = 0 THEN x ELSE y])]]

InitWav ==
  /\ IdleHook
  /\ IdleBeat
  /\ IdleMix
  /\ IdleLengths
  /\ \E n \in WavFrames, channels \in 1..MaxWavChannels, rate \in WavSampleRates,
        x \in WavSampleValues, y \in WavSampleValues :
       /\ n = LongWavFrames => (x = 500 /\ y = -Scale)
       /\ frame = [method |-> "audioBufferToWav", pc |-> "start",
                   args |-> [buffer |-> WavBuffer(n, channels, rate, x, y)],
                   before |-> <<>>, result |-> <<>>]

\* this.audioBufferToWav(audioBuffer), as createAudioURL calls it
AudioBufferToWavCall ==
  /\ frame.method = "audioBufferToWav"
  /\ frame.pc = "start"
  /\ frame' = [frame EXCEPT !.pc = "done", !.result = AudioBufferToWav(frame.args.buffer)]
  /\ UNCHANGED <<beatVars, mixVars, lengths, hookVars>>

NextWav == AudioBufferToWavCall

SpecWav == InitWav /\ [][NextWav]_vars

(***************************************************************************)
(* One sample through the encoding, back into a Float32Array as q / 32767, *)
(* and through the encoding again                                          *)
(***************************************************************************)
MaxPcmSteps == 24
\* a sample is k / 65536: the first steps from 0, the steps around 0.5, the last steps to 1
SampleUnits == 65536
PcmNumerators ==
  0..MaxPcmSteps
    \cup ((SampleUnits \div 2) - MaxPcmSteps)..((SampleUnits \div 2) + MaxPcmSteps)
    \cup (SampleUnits - MaxPcmSteps)..SampleUnits

InitPcm ==
  /\ IdleHook
  /\ IdleBeat
  /\ IdleMix
  /\ IdleLengths
  /\ \E k \in PcmNumerators, negative \in BOOLEAN :
       frame = [method |-> "roundTrip", pc |-> "start",
                args |-> [numerator |-> k, sample |-> Float32Of(negative, k, SampleUnits)],
                before |-> <<>>, result |-> [q |-> 0, decoded |-> <<>>, again |-> 0]]

\* view.setInt16(offset, sample * 0x7FFF, true)
PcmEncode ==
  /\ frame.method = "roundTrip"
  /\ frame.pc = "start"
  /\ frame' = [frame EXCEPT !.pc = "encoded", !.result.q = PcmOfFloat32(frame.args.sample)]
  /\ UNCHANGED <<beatVars, mixVars, lengths, hookVars>>

\* the stored integer put back into a channel of an AudioBuffer as q / 32767
PcmDecode ==
  /\ frame.method = "roundTrip"
  /\ frame.pc = "encoded"
  /\ frame' = [frame EXCEPT !.pc = "decoded",
                            !.result.decoded = Float32Of(frame.result.q < 0, Abs(frame.result.q),
                                                         PcmScale)]
  /\ UNCHANGED <<beatVars, mixVars, lengths, hookVars>>

\* view.setInt16(offset, sample * 0x7FFF, true) on the decoded sample
PcmEncodeAgain ==
  /\ frame.method = "roundTrip"
  /\ frame.pc = "decoded"
  /\ frame' = [frame EXCEPT !.pc = "done", !.result.again = PcmOfFloat32(frame.result.decoded)]
  /\ UNCHANGED <<beatVars, mixVars, lengths, hookVars>>

NextPcm == PcmEncode \/ PcmDecode \/ PcmEncodeAgain

SpecPcm == InitPcm /\ [][NextPcm]_vars

(***************************************************************************)
(* Two createMashup calls on the one AudioMixer and the same two tracks,   *)
(* their steps interleaved at the awaits                                   *)
(***************************************************************************)
\* params without reverb, at ratio 1
InterleavedParams ==
  {[crossfadeTime |-> x, tempo |-> t, volume1 |-> v[1], volume2 |-> v[2],
    bassBoost |-> 200, trebleBoost |-> 100, reverbLevel |-> 0, compressionRatio |-> Scale] :
     x \in CrossfadeTimes, t \in Tempos, v \in VolumePairs}

InitInterleaved ==
  /\ IdleHook
  /\ IdleBeat
  /\ IdleLengths
  /\ IdleFrame
  /\ \E n \in 2..MaxLength, swapped \in BOOLEAN, p1 \in InterleavedParams,
        p2 \in InterleavedParams :
       /\ heap = << MonoTrack(TrackData(MaxLength, TRUE)), MonoTrack(TrackData(n, FALSE)) >>
       /\ calls = << NewCall(1, 2, p1),
                     IF swapped THEN NewCall(2, 1, p2) ELSE NewCall(1, 2, p2) >>

SpecInterleaved == InitInterleaved /\ [][Next]_vars

(***************************************************************************)
(* The useAudioMixing hook: loadAudioFile, createMashup, removeTrack,      *)
(* clearAllTracks and clearError on one MixingState, the calls suspended   *)
(* at their awaits                                                         *)
(***************************************************************************)
MaxInvocations == 2

NoTrack == [id |-> 0, buffer |-> 0, url |-> 0]
NoArgs == [file |-> <<>>, track1Id |-> 0, track2Id |-> 0, params |-> <<>>]

\* a File by what decodeAudioData makes of it: the samples of one channel, <<>> when it
\* rejects
Files == {TrackData(3, TRUE), TrackData(2, FALSE), <<>>}

\* params that leave both tracks unstretched and params whose tempo stretches a short track
\* to no sample at all
HookParams ==
  {[crossfadeTime |-> 0, tempo |-> t, volume1 |-> Scale, volume2 |-> Scale,
    bassBoost |-> 200, trebleBoost |-> 100, reverbLevel |-> 0, compressionRatio |-> Scale] :
     t \in {2 * Scale, 8 * Scale}}

\* the ids a caller passes: of the first two tracks ever loaded
CallerTrackIds == {1, 2}

\* Array.prototype.find on loadedTracks: the first track of that id, NoTrack for undefined
RECURSIVE FindTrack(_, _)
FindTrack(tracks, id) ==
  IF tracks = <<>> THEN NoTrack
  ELSE IF Head(tracks).id = id THEN Head(tracks)
  ELSE FindTrack(Tail(tracks), id)

\* Array.prototype.filter on loadedTracks: t => t.id !== trackId
RECURSIVE WithoutTrack(_, _)
WithoutTrack(tracks, trackId) ==
  IF tracks = <<>> THEN <<>>
  ELSE IF Head(tracks).id = trackId THEN WithoutTrack(Tail(tracks), trackId)
  ELSE << Head(tracks) >> \o WithoutTrack(Tail(tracks), trackId)

\* URL.revokeObjectURL on the URLs of set
Revoked(all, set) == [u \in DOMAIN all |-> IF u \in set THEN [all[u] EXCEPT !.revoked = TRUE]
                                                         ELSE all[u]]

\* lines 38 to 41, updateProgress: both updaters applied to the pair of states
UpdateProgress(hook, progress, message) ==
  [state |-> [hook.state EXCEPT !.progress = IF progress # 0 THEN progress ELSE @],
   currentOperation |->
     IF hook.currentOperation # NoOperation
     THEN [hook.currentOperation EXCEPT !.progress = progress, !.message = message]
     ELSE NoOperation]

\* lines 47 to 52 and 105 to 110: the state and the operation a call starts with
Processing(type, message) ==
  [state |-> [state EXCEPT !.isProcessing = TRUE, !.error = "", !.progress = 0],
   currentOperation |-> [type |-> type, progress |-> 0, message |-> message]]

NewInvocation(method, pc, args) ==
  [method |-> method, pc |-> pc, args |-> args, track |-> NoTrack, track1 |-> NoTrack,
   track2 |-> NoTrack, mixer |-> 0, audioURL |-> 0, returned |-> "", errorMessage |-> "",
   cancelRequested |-> FALSE]

\* a catch block that leaves isProcessing as it is
CaughtStillProcessing(k, errorMessage) ==
  /\ state' = [state EXCEPT !.error = errorMessage, !.progress = 0]
  /\ currentOperation' = NoOperation
  /\ invocations' = [invocations EXCEPT ![k].pc = "done", ![k].returned = "null",
                                        ![k].errorMessage = errorMessage]

\* lines 76 to 86 and 140 to 150: the catch block of invocation k
Caught(k, errorMessage) ==
  /\ state' = [state EXCEPT !.isProcessing = FALSE, !.error = errorMessage, !.progress = 0]
  /\ currentOperation' = NoOperation
  /\ invocations' = [invocations EXCEPT ![k].pc = "done", ![k].returned = "null",
                                        ![k].errorMessage = errorMessage]

\* lines 44 to 56: loadAudioFile up to the await of loadAudioTrack
LoadAudioFile(file) ==
  /\ Len(invocations) < MaxInvocations
  /\ LET hook == UpdateProgress(Processing("load", "Loading audio file..."), 20,
                                "Decoding audio data...")
     IN  /\ state' = hook.state
         /\ currentOperation' = hook.currentOperation
  /\ invocations' = Append(invocations,
                           NewInvocation("loadAudioFile", "decoding",
                                         [NoArgs EXCEPT !.file = file]))
  /\ UNCHANGED <<beatVars, mixVars, lengths, frame, urls>>

\* lines 40 to 54 of the mixer and 58 to 59 of the hook: loadAudioTrack decodes the file
\* and returns the track, under an id no other track has, or rejects; the hook goes on to
\* the await of the timer
LoadAudioFileDecoded(k) ==
  /\ invocations[k].pc = "decoding"
  /\ LET file == invocations[k].args.file
         track == [id |-> Cardinality({u \in DOMAIN urls : urls[u].of = "file"}) + 1,
                   buffer |-> Len(heap) + 1, url |-> Len(urls) + 1]
         hook == UpdateProgress([state |-> state, currentOperation |-> currentOperation],
                                60, "Analyzing beats and tempo...")
     IN  IF file = <<>>
         THEN /\ Caught(k, "Unable to decode audio data")
              /\ UNCHANGED <<heap, urls>>
         ELSE /\ heap' = Append(heap, MonoTrack(file))
              /\ urls' = Append(urls, [of |-> "file", buffer |-> track.buffer,
                                       revoked |-> FALSE])
              /\ state' = hook.state
              /\ currentOperation' = hook.currentOperation
              /\ invocations' = [invocations EXCEPT ![k].pc = "analyzing", ![k].track = track]
  /\ UNCHANGED <<beatVars, calls, lengths, frame>>

\* lines 61 to 74: detectBeats on the track, the track and its beatInfo added, the return
LoadAudioFileAnalyzed(k) ==
  /\ invocations[k].pc = "analyzing"
  /\ LET track == invocations[k].track
         beatInfo == DetectBeats(heap[track.buffer])
         hook == UpdateProgress([state |-> state, currentOperation |-> currentOperation],
                                100, "Audio loaded successfully!")
         prev == hook.state
     IN  /\ state' = [prev EXCEPT
                        !.isProcessing = FALSE,
                        !.loadedTracks = Append(prev.loadedTracks, track),
                        !.beatInfo = [id \in DOMAIN prev.beatInfo \cup {track.id} |->
                                        IF id = track.id THEN beatInfo ELSE prev.beatInfo[id]],
                        !.progress = 100]
         /\ currentOperation' = NoOperation
         /\ invocations' = [invocations EXCEPT ![k].pc = "done", ![k].returned = "track"]
  /\ UNCHANGED <<beatVars, mixVars, lengths, frame, urls>>

\* lines 90 to 114: createMashup up to the await of the first timer, or its early return
HookCreateMashup(track1Id, track2Id, params) ==
  /\ Len(invocations) < MaxInvocations
  /\ LET track1 == FindTrack(state.loadedTracks, track1Id)
         track2 == FindTrack(state.loadedTracks, track2Id)
         args == [NoArgs EXCEPT !.track1Id = track1Id, !.track2Id = track2Id,
                                !.params = params]
         hook == UpdateProgress(Processing("mix", "Preparing mashup..."), 10,
                                "Analyzing track synchronization...")
     IN  IF track1 = NoTrack \/ track2 = NoTrack
         THEN /\ state' = [state EXCEPT !.error = "Please select two tracks to mix"]
              /\ invocations' = Append(invocations,
                                       [NewInvocation("createMashup", "done", args)
                                          EXCEPT !.returned = "null"])
              /\ UNCHANGED currentOperation
         ELSE /\ state' = hook.state
              /\ currentOperation' = hook.currentOperation
              /\ invocations' = Append(invocations,
                                       [NewInvocation("createMashup", "synchronizing", args)
                                          EXCEPT !.track1 = track1, !.track2 = track2])
  /\ UNCHANGED <<beatVars, mixVars, lengths, frame, urls>>


\* lines 116 to 117: after the first timer, up to the await of the second
HookMashupSynchronized(k) ==
  /\ invocations[k].pc = "synchronizing"
  /\ LET hook == UpdateProgress([state |-> state, currentOperation |-> currentOperation],
                                30, "Time-stretching and beat matching...")
     IN  /\ state' = hook.state
         /\ currentOperation' = hook.currentOperation
  /\ invocations' = [invocations EXCEPT ![k].pc = "stretching"]
  /\ UNCHANGED <<beatVars, mixVars, lengths, frame, urls>>

\* lines 119 to 120: after the second timer the mixer's createMashup is called, and runs up
\* to its first await
HookMashupMixing(k) ==
  /\ invocations[k].pc = "stretching"
  /\ LET hook == UpdateProgress([state |-> state, currentOperation |-> currentOperation],
                                60, "Mixing tracks with crossfade...")
         started == MashupStarted(heap, NewCall(invocations[k].track1.buffer,
                                                invocations[k].track2.buffer,
                                                invocations[k].args.params))
     IN  /\ state' = hook.state
         /\ currentOperation' = hook.currentOperation
         /\ heap' = started.heap
         /\ calls' = Append(calls, started.call)
  /\ invocations' = [invocations EXCEPT ![k].pc = "mixing", ![k].mixer = Len(calls) + 1]
  /\ UNCHANGED <<beatVars, lengths, frame, urls>>

\* lines 120 to 123: the mixer's createMashup has returned or thrown
HookMashupMixed(k) ==
  /\ invocations[k].pc = "mixing"
  /\ calls[invocations[k].mixer].pc \in {"done", "failed"}
  /\ LET hook == UpdateProgress([state |-> state, currentOperation |-> currentOperation],
                                85, "Applying effects and finalizing...")
     IN  IF calls[invocations[k].mixer].pc = "failed"
         THEN Caught(k, calls[invocations[k].mixer].error)
         ELSE /\ state' = hook.state
              /\ currentOperation' = hook.currentOperation
              /\ invocations' = [invocations EXCEPT ![k].pc = "finalizing"]
  /\ UNCHANGED <<beatVars, mixVars, lengths, frame, urls>>

\* lines 125 to 126 and 427 to 431 of the mixer: after the third timer the output buffer is
\* given an object URL
HookMashupFinalized(k) ==
  /\ invocations[k].pc = "finalizing"
  /\ LET hook == UpdateProgress([state |-> state, currentOperation |-> currentOperation],
                                95, "Rendering audio output...")
     IN  /\ state' = hook.state
         /\ currentOperation' = hook.currentOperation
  /\ urls' = Append(urls, [of |-> "wav", buffer |-> calls[invocations[k].mixer].outputBuffer,
                           revoked |-> FALSE])
  /\ invocations' = [invocations EXCEPT ![k].pc = "rendering", ![k].audioURL = Len(urls) + 1]
  /\ UNCHANGED <<beatVars, mixVars, lengths, frame>>

\* lines 128 to 138: the URL stored as mixedAudio and returned
HookMashupRendered(k) ==
  /\ invocations[k].pc = "rendering"
  /\ LET hook == UpdateProgress([state |-> state, currentOperation |-> currentOperation],
                                100, "Mashup created successfully!")
     IN  state' = [hook.state EXCEPT !.isProcessing = FALSE,
                                     !.mixedAudio = invocations[k].audioURL,
                                     !.progress = 100]
  /\ currentOperation' = NoOperation
  /\ invocations' = [invocations EXCEPT ![k].pc = "done", ![k].returned = "url"]
  /\ UNCHANGED <<beatVars, mixVars, lengths, frame, urls>>

\* a removeTrack that leaves the track's beatInfo behind
RemoveTrackOnly(trackId) ==
  /\ LET trackToRemove == FindTrack(state.loadedTracks, trackId)
     IN  urls' = IF trackToRemove # NoTrack THEN Revoked(urls, {trackToRemove.url}) ELSE urls
  /\ state' = [state EXCEPT !.loadedTracks = WithoutTrack(@, trackId)]
  /\ UNCHANGED <<beatVars, mixVars, lengths, frame, currentOperation, invocations>>

\* lines 154 to 170
RemoveTrack(trackId) ==
  /\ LET trackToRemove == FindTrack(state.loadedTracks, trackId)
     IN  urls' = IF trackToRemove # NoTrack THEN Revoked(urls, {trackToRemove.url}) ELSE urls
  /\ state' = [state EXCEPT
                 !.loadedTracks = WithoutTrack(@, trackId),
                 !.beatInfo = [id \in DOMAIN @ \ {trackId} |-> @[id]]]
  /\ UNCHANGED <<beatVars, mixVars, lengths, frame, currentOperation, invocations>>

\* lines 173 to 190
ClearAllTracks ==
  /\ urls' = Revoked(urls, {state.loadedTracks[n].url : n \in DOMAIN state.loadedTracks}
                             \cup (IF state.mixedAudio # 0 THEN {state.mixedAudio} ELSE {}))
  /\ state' = InitialState
  /\ UNCHANGED <<beatVars, mixVars, lengths, frame, currentOperation, invocations>>

\* lines 193 to 195
ClearError ==
  /\ state' = [state EXCEPT !.error = ""]
  /\ UNCHANGED <<beatVars, mixVars, lengths, frame, currentOperation, invocations, urls>>

\* the hook after two files were loaded one after the other and both calls have returned
TwoTracksLoaded ==
  /\ heap = << MonoTrack(TrackData(3, TRUE)), MonoTrack(TrackData(2, FALSE)) >>
  /\ calls = <<>>
  /\ urls = [u \in 1..2 |-> [of |-> "file", buffer |-> u, revoked |-> FALSE]]
  /\ state = [InitialState EXCEPT
                !.progress = 100,
                !.loadedTracks = [u \in 1..2 |-> [id |-> u, buffer |-> u, url |-> u]],
                !.beatInfo = [id \in 1..2 |-> DetectBeats(heap[id])]]
  /\ currentOperation = NoOperation
  /\ invocations = <<>>

InitHook ==
  /\ IdleBeat
  /\ IdleLengths
  /\ IdleFrame
  /\ \/ IdleHook /\ IdleMix
     \/ TwoTracksLoaded

NextHook ==
  \/ \E file \in Files : LoadAudioFile(file)
  \/ \E track1Id \in CallerTrackIds, track2Id \in CallerTrackIds, params \in HookParams :
       HookCreateMashup(track1Id, track2Id, params)
  \/ \E k \in DOMAIN invocations :
       \/ LoadAudioFileDecoded(k)
       \/ LoadAudioFileAnalyzed(k)
       \/ HookMashupSynchronized(k)
       \/ HookMashupMixing(k)
       \/ HookMashupMixed(k)
       \/ HookMashupFinalized(k)
       \/ HookMashupRendered(k)
  \/ \E c \in DOMAIN calls :
       \/ CreateMashupStretch2(c)
       \/ CreateMashupMix(c)
  \/ \E trackId \in CallerTrackIds : RemoveTrack(trackId)
  \/ ClearAllTracks
  \/ ClearError

SpecHook == InitHook /\ [][NextHook]_vars

\* the caller of createMashup asks for a mix request in flight to be cancelled: the call
\* took two ids and the params (lines 90 to 94) and nothing to cancel it by, and the promise
\* it returned has no such method, so the request stays with the caller
RequestCancel(k) ==
  /\ invocations[k].method = "createMashup"
  /\ invocations[k].pc # "done"
  /\ ~invocations[k].cancelRequested
  /\ invocations' = [invocations EXCEPT ![k].cancelRequested = TRUE]
  /\ UNCHANGED <<beatVars, mixVars, lengths, frame, state, currentOperation, urls>>

NextCancel ==
  \/ NextHook
  \/ \E k \in DOMAIN invocations : RequestCancel(k)

SpecCancel == InitHook /\ [][NextCancel]_vars

(***************************************************************************)
(* findPeaks on its own, and the beats detectBeats derives from its peaks  *)
(***************************************************************************)
MaxOnsetFrames == 13

\* onset strengths 0.2 (under the threshold), 0.5 and 1.0
OnsetLevels == {200, 500, Scale}

\* data of the given length, level at the indices of raised and 0 elsewhere, the index
\* after a raised index two levels lower when it is raised too
OnsetData(length, raised, level) ==
  TypedArray([n \in 1..length |->
                IF (n - 1) \in raised
                THEN (IF (n - 2) \in raised THEN level - 200 ELSE level)
                ELSE 0])

InitPeaks ==
  /\ IdleHook
  /\ IdleBeat
  /\ IdleMix
  /\ IdleLengths
  /\ \E length \in 0..MaxOnsetFrames, level \in OnsetLevels :
       \E raised \in SUBSET (0..(length - 1)) :
         frame = [method |-> "findPeaks", pc |-> "start",
                  args |-> [data |-> OnsetData(length, raised, level),
                            threshold |-> PeakThreshold, sampleRate |-> 8000],
                  before |-> <<>>, result |-> [peaks |-> <<>>, beats |-> <<>>]]

\* lines 68 and 276 to 293
FindPeaksCall ==
  /\ frame.method = "findPeaks"
  /\ frame.pc = "start"
  /\ frame' = [frame EXCEPT !.pc = "found",
                            !.result.peaks = FindPeaks(frame.args.data, frame.args.threshold)]
  /\ UNCHANGED <<beatVars, mixVars, lengths, hookVars>>

\* lines 73 to 74: the peaks as times, onsetStrength of a filtered signal of one hop a frame
BeatsOfPeaks ==
  /\ frame.method = "findPeaks"
  /\ frame.pc = "found"
  /\ LET onsetLength == Len(frame.args.data)
         peaks == frame.result.peaks
     IN  frame' = [frame EXCEPT
                     !.pc = "done",
                     !.result.beats = [k \in 1..Len(peaks) |->
                                         BeatTime(peaks[k], frame.args.sampleRate, onsetLength,
                                                  onsetLength * HopSize)]]
  /\ UNCHANGED <<beatVars, mixVars, lengths, hookVars>>

NextPeaks == FindPeaksCall \/ BeatsOfPeaks

SpecPeaks == InitPeaks /\ [][NextPeaks]_vars

(***************************************************************************)
(* Properties of createMashup's factors and lengths (SpecLength)           *)
(***************************************************************************)
LengthsDone == lengths.pc = "done"

\* C1: the stretch factor passed to timeStretch is the detected BPM divided by the target
\* BPM (params.tempo), and a track whose detected BPM is within 5% of the target is left
\* unstretched.
C1_FactorIsDetectedOverTarget ==
  LengthsDone =>
    LET wanted1 == FDiv(lengths.beats1.bpm, lengths.params.tempo)
        wanted2 == FDiv(lengths.beats2.bpm, lengths.params.tempo)
    IN  /\ Abs(lengths.factor1 - wanted1) <= 1
        /\ Abs(lengths.factor2 - wanted2) <= 1
        /\ Unstretched(wanted1) => lengths.adjustedLength1 = lengths.length1
        /\ Unstretched(wanted2) => lengths.adjustedLength2 = lengths.length2

\* C2: for two ten-second mono tracks at 44100 Hz (441000 frames each), a crossfade of 2.0 s
\* and a target tempo in 80..180, the output has 441000 + 88200 frames, within one hop of
\* 512, whatever BPM in 60..200 detection returned.
C2_OutputLengthIsTrackPlusCrossfade ==
  (/\ LengthsDone
   /\ lengths.length1 = TrackFrames
   /\ lengths.length2 = TrackFrames
   /\ lengths.params.crossfadeTime = 2 * TimeScale)
    => Abs(lengths.outputLength - (TrackFrames + 2 * MixerSampleRate)) <= HopSize

(***************************************************************************)
(* Properties of one createMashup call (Spec)                              *)
(***************************************************************************)
ReadingStages == {"detectBeats", "timeStretch", "mixTracks"}
EffectStages == {"applyEQ", "applyCompression", "applyReverb", "normalize"}

\* the two tracks agree in sample rate and channel count and neither is empty
TracksMatch(c) ==
  LET t1 == heap[calls[c].track1]
      t2 == heap[calls[c].track2]
  IN  /\ t1.sampleRate = t2.sampleRate
      /\ NumberOfChannels(t1) = NumberOfChannels(t2)
      /\ Length(t1) > 0
      /\ Length(t2) > 0

FiniteChannel(data) == \A n \in 1..Len(data) : IsFinite(data[n])
Loud(data) == \E n \in 1..Len(data) : Abs(data[n]) > Scale
PeakAbs(data) ==
  LET s == {Abs(data[n]) : n \in 1..Len(data)}
  IN  IF s = {} THEN 0 ELSE CHOOSE m \in s : \A x \in s : x <= m

\* C3: when the two tracks differ in sample rate or channel count, or one has no frames,
\* createMashup reports an error before any stage of the pipeline has run.
C3_MismatchedTracksRejectedFirst ==
  \A c \in DOMAIN calls :
    (~TracksMatch(c) /\ calls[c].pc # "start")
      => (calls[c].pc = "failed" /\ calls[c].log = <<>>)

\* C4: whatever the MixingParams, also out of range (a crossfade of zero samples, a
\* compression ratio of 0, negative volumes), createMashup does not throw and writes no NaN
\* and no infinite sample to its output.
C4_NoThrowNoNonFiniteSample ==
  \A c \in DOMAIN calls :
    TracksMatch(c) =>
      /\ calls[c].pc # "failed"
      /\ calls[c].pc = "done" => AllFinite(heap[calls[c].outputBuffer].channels)

C6_NormalizeBoundsPeak ==
  \A c \in DOMAIN calls : \A k \in DOMAIN calls[c].log :
    LET e == calls[c].log[k]
    IN  e.stage = "normalize" =>
          \A ch \in 1..2 :
            FiniteChannel(e.before[ch]) =>
              /\ Loud(e.before[ch]) =>
                   \A n \in 1..Len(e.after[ch]) : Abs(e.after[ch][n]) <= Headroom + 1
              /\ ~Loud(e.before[ch]) => e.after[ch] = e.before[ch]
              /\ \A n \in 1..Len(e.after[ch]) : Abs(e.after[ch][n]) <= Scale

\* normalize met a channel of finite samples whose peak is above 1.0 and scaled it
C6_LoudChannelNormalized ==
  \E c \in DOMAIN calls : \E k \in DOMAIN calls[c].log :
    LET e == calls[c].log[k]
    IN  /\ e.stage = "normalize"
        /\ \E ch \in 1..2 :
             FiniteChannel(e.before[ch]) /\ Loud(e.before[ch]) /\ e.after[ch] # e.before[ch]

\* C7 as stated: the normalizer takes one peak over the whole buffer and scales every
\* channel by the same 0.95 / peak, so the ratio of left to right is preserved.
C7_OnePeakForBothChannels ==
  \A c \in DOMAIN calls : \A k \in DOMAIN calls[c].log :
    LET e == calls[c].log[k]
        peak == Max(PeakAbs(e.before[1]), PeakAbs(e.before[2]))
    IN  (e.stage = "normalize" /\ FiniteChannel(e.before[1]) /\ FiniteChannel(e.before[2])) =>
          \A ch \in 1..2 : \A n \in 1..Len(e.after[ch]) :
            e.after[ch][n] = IF peak > Scale
                             THEN RDiv(e.before[ch][n] * Headroom, peak)
                             ELSE e.before[ch][n]

\* C7 amended: the normalizer runs once per channel: a channel whose own peak is above 1.0
\* is scaled by 0.95 over that channel's peak, a channel whose peak is at most 1.0 is
\* unchanged, whatever the other channel holds.
C7_EachChannelByItsOwnPeak ==
  \A c \in DOMAIN calls : \A k \in DOMAIN calls[c].log :
    LET e == calls[c].log[k]
    IN  e.stage = "normalize" =>
          \A ch \in 1..2 :
            FiniteChannel(e.before[ch]) =>
              LET peak == PeakAbs(e.before[ch])
              IN  \A n \in 1..Len(e.after[ch]) :
                    e.after[ch][n] = IF peak > Scale
                                     THEN RDiv(e.before[ch][n] * Headroom, peak)
                                     ELSE e.before[ch][n]

\* normalize met two channels of finite samples, both above 1.0, with different peaks
C7_ChannelsWithDifferentPeaks ==
  \E c \in DOMAIN calls : \E k \in DOMAIN calls[c].log :
    LET e == calls[c].log[k]
    IN  /\ e.stage = "normalize"
        /\ FiniteChannel(e.before[1]) /\ FiniteChannel(e.before[2])
        /\ PeakAbs(e.before[1]) > Scale /\ PeakAbs(e.before[2]) > Scale
        /\ PeakAbs(e.before[1]) # PeakAbs(e.before[2])

(***************************************************************************)
(* Properties of detectBeats (SpecBeat)                                    *)
(***************************************************************************)
Ran == detected # NotRun
Silent(buffer) == \A n \in 1..Length(buffer) : GetChannelData(buffer, 0)[n] = 0

\* C8: for a buffer of zeros of any length, also 0 and less than one hop of 512,
\* detectBeats returns bpm 120, confidence 0 and no beats, and does not throw.
C8_SilenceGivesDefault ==
  (Ran /\ Silent(BufferOf(audio))) =>
    /\ detected.result.bpm = 120 * Scale
    /\ detected.result.confidence = 0
    /\ detected.result.beats = <<>>

\* detectBeats has returned for a silent buffer shorter than one hop
C8_ShortSilenceDetected ==
  Ran /\ Silent(BufferOf(audio)) /\ audio.length > 0 /\ audio.length < HopSize

\* C9: every result of detectBeats has 60 <= bpm <= 200 and confidence
\* min(peaks / 100, 1), which is in [0, 1]; with fewer than two peaks bpm is exactly 120.
C9_BpmAndConfidenceInRange ==
  Ran =>
    /\ detected.result.bpm >= 60 * Scale
    /\ detected.result.bpm <= 200 * Scale
    /\ detected.result.confidence =
         IF Len(detected.peaks) >= 100 THEN Scale ELSE (Len(detected.peaks) * Scale) \div 100
    /\ detected.result.confidence >= 0
    /\ detected.result.confidence <= Scale
    /\ Len(detected.peaks) < 2 => detected.result.bpm = 120 * Scale

\* detectBeats has returned with more than 100 peaks and the confidence capped at 1
C9_ConfidenceCapped ==
  Ran /\ Len(detected.peaks) > 100 /\ detected.result.confidence = Scale

\* C10: for a buffer at 44100 Hz with an onset every 0.5 s, the peaks 43 or 44 hops apart,
\* the BPM returned is within 2 of 120.
C10_HalfSecondOnsetsGive120 ==
  (/\ Ran
   /\ audio.sampleRate = MixerSampleRate
   /\ Len(detected.peaks) >= 2
   /\ \A k \in 1..(Len(detected.peaks) - 1) :
        detected.peaks[k + 1] - detected.peaks[k] \in {43, 44})
    => Abs(detected.result.bpm - 120 * Scale) <= 2 * Scale

(***************************************************************************)
(* Properties of timeStretch (SpecStretch)                                 *)
(***************************************************************************)
Stretched == frame.method = "timeStretch" /\ frame.pc # "start"
StretchReturned == frame.method = "timeStretch" /\ frame.pc = "done"
\* |factor - 1| < 0.05
NearOne(factor) == IsFinite(factor) /\ 950 < factor /\ factor < 1050
\* floor(inputLength / factor) for a positive factor, finite or infinite
FloorOfQuotient(inputLength, factor) == (inputLength * Scale) \div factor

C12_StretchedLengthIsFloorOrThrows ==
  LET factor == frame.args.stretchFactor
      n == FloorOfQuotient(Length(frame.before), factor)
  IN  (Stretched /\ factor > 0 /\ ~IsNaN(factor) /\ ~NearOne(factor)) =>
        IF n >= 1
        THEN /\ frame.pc = "done"
             /\ Length(heap[frame.result]) = n
             /\ factor = 2 * Scale => Length(heap[frame.result]) = Length(frame.before) \div 2
             /\ NumberOfChannels(heap[frame.result]) = NumberOfChannels(frame.before)
             /\ heap[frame.result].sampleRate = frame.before.sampleRate
        ELSE frame.pc = "failed"

\* three stereo frames at 48000 Hz halved to one stereo frame at 48000 Hz
C12_OddLengthHalved ==
  /\ StretchReturned
  /\ frame.args.stretchFactor = 2 * Scale
  /\ Length(frame.before) = 3
  /\ NumberOfChannels(frame.before) = 2
  /\ frame.before.sampleRate = 48000
  /\ Length(heap[frame.result]) = 1

\* C12 as the spec states it: every positive factor at least 0.05 away from 1 makes
\* timeStretch return a buffer of floor(inputLength / factor) frames.
C12_StretchAlwaysReturnsFloor ==
  LET factor == frame.args.stretchFactor
  IN  (Stretched /\ factor > 0 /\ ~IsNaN(factor) /\ ~NearOne(factor)) =>
        /\ frame.pc = "done"
        /\ Length(heap[frame.result]) = FloorOfQuotient(Length(frame.before), factor)

(***************************************************************************)
(* Properties of mixTracks and applyEffects (SpecMix)                      *)
(***************************************************************************)
MixDone(c) == calls[c].pc = "done"
TrackA(c) == GetChannelData(heap[calls[c].adjustedTrack1], 0)
TrackB(c) == GetChannelData(heap[calls[c].adjustedTrack2], 0)
\* floor(crossfadeTime * 44100)
CrossfadeFrames(c) == (calls[c].params.crossfadeTime * MixerSampleRate) \div TimeScale
\* floor(0.3 * lenA)
StartB(c) == (3 * Len(TrackA(c))) \div 10
\* trackBStart - crossfadeSamples / 2 <= i <= trackBStart + crossfadeSamples / 2
InWindow(c, i) ==
  /\ 2 * StartB(c) - CrossfadeFrames(c) <= 2 * i
  /\ 2 * i <= 2 * StartB(c) + CrossfadeFrames(c)
\* the entry of call c's log for a stage it ran once
StageOf(c, stage) == calls[c].log[CHOOSE k \in DOMAIN calls[c].log : calls[c].log[k].stage = stage]
\* the two channels mixTracks wrote, as applyEQ found them
MixedOutput(c) == StageOf(c, "applyEQ").before
\* Track A's and Track B's sample under output frame i, 0 outside the track
SampleA(c, i) == IF 0 <= i /\ i < Len(TrackA(c)) THEN TrackA(c)[i + 1] ELSE 0
SampleB(c, i) ==
  IF StartB(c) <= i /\ i < StartB(c) + Len(TrackB(c)) THEN TrackB(c)[i - StartB(c) + 1] ELSE 0

\* C13: the buffer a createMashup returns has exactly 2 channels and exactly
\* max(lenA, lenB) + floor(crossfadeTime * sampleRate) frames, lenA and lenB being the
\* lengths of the two buffers timeStretch returned.
C13_OutputIsStereoOfMaxPlusCrossfade ==
  \A c \in DOMAIN calls :
    MixDone(c) =>
      LET out == heap[calls[c].outputBuffer]
      IN  /\ NumberOfChannels(out) = 2
          /\ Len(out.channels[1]) = Max(Len(TrackA(c)), Len(TrackB(c))) + CrossfadeFrames(c)
          /\ Len(out.channels[2]) = Len(out.channels[1])

\* tracks of 10 and 3 frames stretched to 5 and 1, and 6 crossfade frames: 11 frames out
C13_StretchedTracksOfDifferentLengths ==
  \E c \in DOMAIN calls :
    /\ MixDone(c)
    /\ calls[c].factor1 = 2 * Scale
    /\ Len(TrackA(c)) = 5
    /\ Len(TrackB(c)) = 1
    /\ CrossfadeFrames(c) = 6
    /\ Length(heap[calls[c].outputBuffer]) = 11

\* C14: in mixTracks Track A is read from output frame 0 on, Track B from output frame
\* floor(0.3 * lenA) on, and the frames that get the crossfade are exactly the frames i with
\* trackBStart - crossfadeSamples / 2 <= i <= trackBStart + crossfadeSamples / 2: a window
\* centred on Track B's start whose two ends are crossfadeSamples frames apart.
C14_WindowCentredOnTrackBStart ==
  \A c \in DOMAIN calls :
    MixDone(c) =>
      /\ Len(calls[c].mix) = Length(heap[calls[c].outputBuffer])
      /\ \A n \in DOMAIN calls[c].mix :
           /\ calls[c].mix[n].fading <=> InWindow(c, n - 1)
           /\ calls[c].mix[n].sample1 = SampleA(c, n - 1)
           /\ calls[c].mix[n].sample2 = SampleB(c, n - 1)

\* 7 frames of Track A, Track B from frame 2, 2 crossfade frames: frames 1, 2 and 3 fade,
\* frames 0 and 4 do not
C14_WindowOfThreeFrames ==
  \E c \in DOMAIN calls :
    /\ MixDone(c)
    /\ StartB(c) = 2
    /\ CrossfadeFrames(c) = 2
    /\ ~calls[c].mix[1].fading
    /\ calls[c].mix[2].fading /\ calls[c].mix[3].fading /\ calls[c].mix[4].fading
    /\ ~calls[c].mix[5].fading
    /\ calls[c].mix[3].sample2 = TrackB(c)[1]

\* C15: at every frame inside the crossfade window Track A's gain is volume1 * (1 - f) and
\* Track B's gain is volume2 * f, with f = t^2 (3 - 2 t) and t the frame's position across
\* the window, a number in [0, 1]; at Track B's start frame, the middle of the window, both
\* fade factors are 0.5.
C15_SmoothstepGainsInWindow ==
  \A c \in DOMAIN calls :
    MixDone(c) =>
      \A n \in DOMAIN calls[c].mix :
        InWindow(c, n - 1) =>
          LET frame_ == calls[c].mix[n]
              t == frame_.fadePosition
              f == frame_.fadeFactor
          IN  /\ IsFinite(t) /\ 0 <= t /\ t <= Scale
              /\ f = FMul(FMul(t, t), FSub(3 * Scale, FMul(2 * Scale, t)))
              /\ frame_.gain1 = FMul(calls[c].params.volume1, Scale - f)
              /\ frame_.gain2 = FMul(calls[c].params.volume2, f)
              /\ (n - 1 = StartB(c)) => (f = 500 /\ Scale - f = 500)

\* C15 where the window has a width: crossfadeSamples > 0
C15_HoldsInWindowsWithWidth ==
  \A c \in DOMAIN calls :
    (MixDone(c) /\ CrossfadeFrames(c) > 0) =>
      \A n \in DOMAIN calls[c].mix :
        InWindow(c, n - 1) =>
          LET frame_ == calls[c].mix[n]
              t == frame_.fadePosition
              f == frame_.fadeFactor
          IN  /\ IsFinite(t) /\ 0 <= t /\ t <= Scale
              /\ 2 * CrossfadeFrames(c) * t
                   \in (2 * (n - 1) - 2 * StartB(c) + CrossfadeFrames(c)) * Scale - CrossfadeFrames(c)
                       .. (2 * (n - 1) - 2 * StartB(c) + CrossfadeFrames(c)) * Scale + CrossfadeFrames(c)
              /\ f = FMul(FMul(t, t), FSub(3 * Scale, FMul(2 * Scale, t)))
              /\ frame_.gain1 = FMul(calls[c].params.volume1, Scale - f)
              /\ frame_.gain2 = FMul(calls[c].params.volume2, f)
              /\ (n - 1 = StartB(c)) => (f = 500 /\ Scale - f = 500)

\* C16: at every output frame i outside the crossfade window Track A contributes
\* volume1 * A[i] when 0 <= i < lenA and 0 otherwise, Track B contributes
\* volume2 * B[i - trackBStart] when trackBStart <= i < trackBStart + lenB and 0 otherwise,
\* and the two samples written are made of these two contributions; so Track A has its
\* full gain volume1 on the frames after the window.
C16_ConstantGainsOutsideWindow ==
  \A c \in DOMAIN calls :
    MixDone(c) =>
      \A n \in DOMAIN calls[c].mix :
        ~InWindow(c, n - 1) =>
          LET a == FMul(calls[c].params.volume1, SampleA(c, n - 1))
              b == FMul(calls[c].params.volume2, SampleB(c, n - 1))
          IN  /\ calls[c].mix[n].gain1 = calls[c].params.volume1
              /\ calls[c].mix[n].gain2 = calls[c].params.volume2
              /\ MixedOutput(c)[1][n] = FAdd(FMul(FAdd(a, b), 700), FMul(a, 300))
              /\ MixedOutput(c)[2][n] = FAdd(FMul(FAdd(a, b), 700), FMul(b, 300))

\* a frame of Track A after the window is over, at gain 0.8, while Track B plays at 0.5
C16_TrackAFullGainAfterWindow ==
  \E c \in DOMAIN calls :
    /\ MixDone(c)
    /\ CrossfadeFrames(c) = 2
    /\ calls[c].params.volume1 = 800
    /\ \E n \in DOMAIN calls[c].mix :
         /\ 2 * (n - 1) > 2 * StartB(c) + CrossfadeFrames(c)
         /\ n - 1 < Len(TrackA(c))
         /\ SampleA(c, n - 1) # 0
         /\ SampleB(c, n - 1) # 0
         /\ calls[c].mix[n].gain1 = 800
         /\ calls[c].mix[n].gain2 = 500

\* C17: for every output frame, a being gain1 * sample1 and b being gain2 * sample2,
\* mixTracks writes 0.7 * (a + b) + 0.3 * a to the left channel and 0.7 * (a + b) + 0.3 * b
\* to the right channel.
C17_LeftAndRightFromBothContributions ==
  \A c \in DOMAIN calls :
    MixDone(c) =>
      \A n \in DOMAIN calls[c].mix :
        LET a == FMul(calls[c].mix[n].gain1, calls[c].mix[n].sample1)
            b == FMul(calls[c].mix[n].gain2, calls[c].mix[n].sample2)
        IN  /\ MixedOutput(c)[1][n] = FAdd(FMul(700, FAdd(a, b)), FMul(300, a))
            /\ MixedOutput(c)[2][n] = FAdd(FMul(700, FAdd(a, b)), FMul(300, b))

\* a frame where both tracks sound and the two channels differ
C17_ChannelsDifferWhereBothSound ==
  \E c \in DOMAIN calls :
    /\ MixDone(c)
    /\ \E n \in DOMAIN calls[c].mix :
         /\ IsFinite(MixedOutput(c)[1][n]) /\ IsFinite(MixedOutput(c)[2][n])
         /\ calls[c].mix[n].sample1 # 0
         /\ calls[c].mix[n].sample2 # 0
         /\ MixedOutput(c)[1][n] # MixedOutput(c)[2][n]

\* the stages of applyEffects in call c's log, in the order they ran
EffectsRun(c) ==
  SelectSeq([k \in DOMAIN calls[c].log |-> calls[c].log[k].stage],
            LAMBDA stage : stage \in {"applyEQ", "applyCompression", "applyReverb", "normalize"})
\* the chain EQ, compressor, reverb when reverbLevel > 0, normalizer, each stage given what
\* the stage before it left, and the output buffer holding what the normalizer left
EffectsChained(c) ==
  LET params == calls[c].params
      eq == StageOf(c, "applyEQ")
      compression == StageOf(c, "applyCompression")
      normalizer == StageOf(c, "normalize")
  IN  /\ EffectsRun(c) = IF FGt(params.reverbLevel, 0)
                         THEN <<"applyEQ", "applyCompression", "applyReverb", "normalize">>
                         ELSE <<"applyEQ", "applyCompression", "normalize">>
      /\ calls[c].log[Len(calls[c].log)].stage = "normalize"
      /\ \A ch \in 1..2 :
           /\ eq.after[ch] = ApplyEQ(eq.before[ch], params.bassBoost, params.trebleBoost)
           /\ compression.before[ch] = eq.after[ch]
           /\ compression.after[ch] = ApplyCompression(compression.before[ch],
                                                       params.compressionRatio)
           /\ IF FGt(params.reverbLevel, 0)
              THEN LET reverb == StageOf(c, "applyReverb")
                   IN  /\ reverb.before[ch] = compression.after[ch]
                       /\ reverb.after[ch] = ApplyReverb(reverb.before[ch], params.reverbLevel)
                       /\ normalizer.before[ch] = reverb.after[ch]
              ELSE normalizer.before[ch] = compression.after[ch]
           /\ normalizer.after[ch] = Normalize(normalizer.before[ch])
           /\ heap[calls[c].outputBuffer].channels[ch] = normalizer.after[ch]

\* C18: for each channel applyEffects runs EQ, then the compressor, then the reverb, then the
\* normalizer, each stage reading what the stage before it wrote; the normalizer is the last
\* stage; and where the reverb is skipped because reverbLevel <= 0, the normalizer is given
\* what a reverb of level 0 would have given it.
C18_FixedOrderAndSkipIsLevelZero ==
  \A c \in DOMAIN calls :
    MixDone(c) =>
      /\ EffectsChained(c)
      /\ ~FGt(calls[c].params.reverbLevel, 0) =>
           \A ch \in 1..2 :
             StageOf(c, "normalize").before[ch]
               = ApplyReverb(StageOf(c, "applyCompression").after[ch], 0)

\* C18 where every sample the compressor wrote is finite
C18_HoldsForFiniteSamples ==
  \A c \in DOMAIN calls :
    MixDone(c) =>
      /\ EffectsChained(c)
      /\ (~FGt(calls[c].params.reverbLevel, 0)
            /\ AllFinite(StageOf(c, "applyCompression").after)) =>
           \A ch \in 1..2 :
             StageOf(c, "normalize").before[ch]
               = ApplyReverb(StageOf(c, "applyCompression").after[ch], 0)

(***************************************************************************)
(* Properties of applyCompression (SpecCompress)                           *)
(***************************************************************************)
Compressed == frame.method = "applyCompression" /\ frame.pc = "done"

\* C19: applyCompression maps each sample x with |x| > 0.7 to
\* sign(x) * (0.7 + (|x| - 0.7) / ratio) * 1.2 and each sample with |x| <= 0.7 to 1.2 * x;
\* for a ratio of 1 or more a sample keeps its sign, of two samples the one larger in
\* magnitude comes out at least as large in magnitude, and no sample comes out larger in
\* magnitude than 1.2 * |x|.
C19_CompressionCurve ==
  Compressed =>
    LET x == frame.before
        y == frame.result
        ratio == frame.args.ratio
        Curve(v) == FMul(FAdd(700, FDiv(v - 700, ratio)), 1200)
    IN  /\ Len(y) = Len(x)
        /\ \A n \in DOMAIN x :
             y[n] = IF Abs(x[n]) > 700
                    THEN (IF x[n] < 0 THEN FNeg(Curve(-x[n])) ELSE Curve(x[n]))
                    ELSE RDiv(1200 * x[n], Scale)
        /\ ratio >= Scale =>
             /\ \A n \in DOMAIN x :
                  /\ IsFinite(y[n])
                  /\ (x[n] > 0 => y[n] > 0) /\ (x[n] < 0 => y[n] < 0) /\ (x[n] = 0 => y[n] = 0)
                  /\ Abs(y[n]) <= RDiv(1200 * Abs(x[n]), Scale)
             /\ \A m, n \in DOMAIN x : Abs(x[m]) <= Abs(x[n]) => Abs(y[m]) <= Abs(y[n])

\* 1.0 and -0.5 at ratio 4: 0.7 + 0.3 / 4 = 0.775 times 1.2 is 0.93, and -0.5 * 1.2 is -0.6
C19_OneAboveOneBelowThreshold ==
  /\ Compressed
  /\ frame.args.ratio = 4 * Scale
  /\ frame.before = <<Scale, -500>>
  /\ frame.result = <<930, -600>>

(***************************************************************************)
(* Properties of audioBufferToWav (SpecWav)                                *)
(***************************************************************************)
WavWritten == frame.method = "audioBufferToWav" /\ frame.pc = "done"
\* the unsigned integers read back from 2 and 4 bytes, lowest byte first
U16At(bytes, offset) == bytes[offset + 1] + 256 * bytes[offset + 2]
U32At(bytes, offset) ==
  bytes[offset + 1] + 256 * bytes[offset + 2] + 65536 * bytes[offset + 3]
    + 16777216 * bytes[offset + 4]

\* C20: for a buffer of n frames and c channels at sample rate r, audioBufferToWav gives
\* exactly 44 + 2nc bytes, and read little-endian its header holds the RIFF size 36 + 2nc at
\* offset 4, the format tag 1 at 20, the channel count c at 22, the sample rate r at 24, the
\* byte rate 2rc at 28, the block align 2c at 32, 16 bits per sample at 34 and the data
\* size 2nc at 40.
C20_WavSizeAndHeader ==
  WavWritten =>
    LET bytes == frame.result.bytes
        n == Length(frame.args.buffer)
        c == NumberOfChannels(frame.args.buffer)
        r == frame.args.buffer.sampleRate
    IN  /\ Len(bytes) = 44 + 2 * n * c
        /\ \A k \in DOMAIN bytes : bytes[k] \in 0..255
        /\ U32At(bytes, 4) = 36 + 2 * n * c
        /\ U16At(bytes, 20) = 1
        /\ U16At(bytes, 22) = c
        /\ U32At(bytes, 24) = r
        /\ U32At(bytes, 28) = 2 * r * c
        /\ U16At(bytes, 32) = 2 * c
        /\ U16At(bytes, 34) = 16
        /\ U32At(bytes, 40) = 2 * n * c

\* 150 stereo frames at 44100 Hz: 644 bytes, the sizes and the rates filling more than one byte
C20_SizesOfMoreThanOneByte ==
  /\ WavWritten
  /\ Length(frame.args.buffer) = LongWavFrames
  /\ NumberOfChannels(frame.args.buffer) = 2
  /\ frame.args.buffer.sampleRate = 44100
  /\ Len(frame.result.bytes) = 644
  /\ SubSeq(frame.result.bytes, 5, 8) = <<124, 2, 0, 0>>
  /\ SubSeq(frame.result.bytes, 25, 28) = <<68, 172, 0, 0>>
  /\ SubSeq(frame.result.bytes, 41, 44) = <<88, 2, 0, 0>>

\* the signed integer read back from 2 bytes, lowest byte first
S16At(bytes, offset) ==
  IF U16At(bytes, offset) >= 32768 THEN U16At(bytes, offset) - 65536 ELSE U16At(bytes, offset)
\* trunc(clamp(x, -1, 1) * 32767) for a sample x that is a number
Quantized(x) ==
  LET clamped == IF x > Scale THEN Scale ELSE IF x < -Scale THEN -Scale ELSE x
  IN  IF clamped >= 0 THEN (clamped * 32767) \div Scale ELSE -((-clamped * 32767) \div Scale)

\* C21: audioBufferToWav writes the sample x of frame i, channel ch at byte offset
\* 44 + 2 * (i * channels + ch) as the signed 16-bit integer trunc(clamp(x, -1, 1) * 32767)
\* (0 for a sample that is NaN); every stored value lies in [-32767, 32767], every write
\* ends inside the allocated bytes, and the last one ends at their end.
C21_SamplesInterleavedClampedTruncated ==
  WavWritten =>
    LET bytes == frame.result.bytes
        buffer == frame.args.buffer
        c == NumberOfChannels(buffer)
    IN  /\ frame.result.offset = Len(bytes)
        /\ \A i \in 0..(Length(buffer) - 1), ch \in 0..(c - 1) :
             LET offset == 44 + 2 * (i * c + ch)
                 x == GetChannelData(buffer, ch)[i + 1]
             IN  /\ offset + 2 <= Len(bytes)
                 /\ S16At(bytes, offset) = IF IsNaN(x) THEN 0 ELSE Quantized(x)
                 /\ S16At(bytes, offset) \in -32767..32767

\* two stereo frames holding -1.5 and 0.5 crosswise: -32767, 16383, 16383, -32767
C21_ClampedAndTruncatedStereo ==
  /\ WavWritten
  /\ NumberOfChannels(frame.args.buffer) = 2
  /\ Length(frame.args.buffer) = 2
  /\ GetChannelData(frame.args.buffer, 0) = <<-1500, 500>>
  /\ GetChannelData(frame.args.buffer, 1) = <<500, -1500>>
  /\ SubSeq(frame.result.bytes, 45, 52) = <<1, 128, 255, 63, 255, 63, 1, 128>>

(***************************************************************************)
(* Properties of the encoding's round trip (SpecPcm)                       *)
(***************************************************************************)
RoundTripDone == frame.method = "roundTrip" /\ frame.pc = "done"
\* 2^s = quotient * 32767 + remainder
RECURSIVE PowerOverScale(_)
PowerOverScale(s) ==
  IF s = 0 THEN [quotient |-> 0, remainder |-> 1]
  ELSE LET half == PowerOverScale(s - 1)
       IN  [quotient |-> 2 * half.quotient + ((2 * half.remainder) \div 32767),
            remainder |-> (2 * half.remainder) % 32767]
\* |decoded - k / 65536| <= 1 / 32767
DecodedWithinOneStep(decoded, k) ==
  IF decoded.mantissa = 0 THEN k * 32767 <= 65536
  ELSE Abs(decoded.mantissa - k * Pow2(decoded.shift - 16))
         <= PowerOverScale(decoded.shift).quotient

\* C22: for every sample x in [-1, 1], the stored 16-bit value q decoded as q / 32767 is
\* within 1 / 32767 of x, and the decoded value encoded again gives q again.
C22_RoundTripIsIdempotent ==
  RoundTripDone =>
    /\ DecodedWithinOneStep(frame.result.decoded, frame.args.numerator)
    /\ frame.result.again = frame.result.q

\* C22, its first half alone: the decoded value is within 1 / 32767 of the sample
C22_DecodedWithinQuantizationStep ==
  RoundTripDone => DecodedWithinOneStep(frame.result.decoded, frame.args.numerator)

(***************************************************************************)
(* Properties of two interleaved createMashup calls (SpecInterleaved)      *)
(***************************************************************************)
\* what createMashup(track1, track2, params) returns when it runs alone on the tracks of
\* heap h: whether it threw, and the channels of its output buffer
ResultAlone(h, track1, track2, params) ==
  LET failed == [threw |-> TRUE, channels |-> <<>>]
      ts1 == TimeStretch(h, track1, StretchFactor(params, DetectBeats(h[track1])))
  IN  IF ts1.threw THEN failed
      ELSE LET ts2 == TimeStretch(ts1.heap, track2,
                                  StretchFactor(params, DetectBeats(h[track2])))
           IN  IF ts2.threw THEN failed
               ELSE LET adjusted1 == ts2.heap[ts1.buffer]
                        adjusted2 == ts2.heap[ts2.buffer]
                        length == MashupOutputLength(Length(adjusted1), Length(adjusted2),
                                                     params)
                        zeros == [n \in 1..length |-> 0]
                    IN  IF CreateBufferThrows(2, length, MixerSampleRate) THEN failed
                        ELSE [threw |-> FALSE,
                              channels |-> ApplyEffects(MixTracks(adjusted1, adjusted2, zeros,
                                                                  zeros, params),
                                                        params).normalized]
\* the buffers call c reads or writes
BuffersOf(c) ==
  {calls[c].track1, calls[c].track2, calls[c].adjustedTrack1, calls[c].adjustedTrack2,
   calls[c].outputBuffer} \ {0}
\* the buffers call c has written into: a buffer a stage changed, the buffer timeStretch
\* created and filled, and the output buffer
WrittenBy(c) ==
  LET log == calls[c].log
  IN  ({log[k].input : k \in {j \in DOMAIN log : log[j].before # log[j].after}}
         \cup {log[k].output : k \in {j \in DOMAIN log : log[j].fresh}}
         \cup {calls[c].outputBuffer}) \ {0}

\* C23: of two createMashup calls interleaved on one AudioMixer, each returns a buffer with
\* the samples it would return run alone on the same tracks and fails where it would fail
\* alone, and neither writes into a buffer the other reads or writes.
C23_InterleavedCallsDoNotInterfere ==
  \A c \in DOMAIN calls :
    LET alone == ResultAlone(SubSeq(heap, 1, 2), calls[c].track1, calls[c].track2,
                             calls[c].params)
    IN  /\ calls[c].pc = "done" =>
             /\ ~alone.threw
             /\ heap[calls[c].outputBuffer].channels = alone.channels
        /\ calls[c].pc = "failed" => alone.threw
        /\ \A d \in DOMAIN calls \ {c} : WrittenBy(c) \cap BuffersOf(d) = {}

\* both calls done on the same two tracks after taking their steps in turn: the first passed
\* both tracks through and mixed them while the second was between its two stretches (the
\* second call's buffers are 3, 5 and 6, the first call's output is 4), and their outputs
\* differ
C23_BothDoneAfterAlternatingSteps ==
  /\ Len(calls) = 2
  /\ calls[1].pc = "done" /\ calls[2].pc = "done"
  /\ calls[1].adjustedTrack1 = 1 /\ calls[1].adjustedTrack2 = 2
  /\ calls[2].track1 = 1 /\ calls[2].adjustedTrack1 = 3
  /\ calls[1].outputBuffer = 4
  /\ calls[2].adjustedTrack2 = 5 /\ calls[2].outputBuffer = 6
  /\ WrittenBy(1) = {4} /\ WrittenBy(2) = {3, 5, 6}
  /\ FiniteChannel(heap[4].channels[1])
  /\ heap[4].channels # heap[6].channels

(***************************************************************************)
(* Properties of a mix request whose caller wants it cancelled (SpecCancel)*)
(***************************************************************************)
\* the stage mix request k is at: the position of the hook's createMashup and of the mixer's
StageOfRequest(k) ==
  << invocations[k].pc,
     IF invocations[k].mixer # 0 THEN calls[invocations[k].mixer].pc ELSE "" >>

\* C24: once the caller of a mix request has asked for its cancellation, no later stage of
\* the request starts: the request stays at the stage boundary it is at.
C24_NoStageStartsAfterCancellation ==
  [][\A k \in DOMAIN invocations :
       invocations[k].cancelRequested =>
         /\ invocations'[k].pc = invocations[k].pc
         /\ invocations'[k].mixer = invocations[k].mixer
         /\ invocations[k].mixer # 0 =>
              calls'[invocations[k].mixer].pc = calls[invocations[k].mixer].pc]_vars

(***************************************************************************)
(* Properties of findPeaks (SpecPeaks)                                     *)
(***************************************************************************)
PeaksFound == frame.method = "findPeaks" /\ frame.pc \in {"found", "done"}
\* index i of the code is a candidate: above the threshold and above both neighbours
Candidate(data, threshold, i) ==
  /\ 1 <= i /\ i <= Len(data) - 2
  /\ data[i + 1] > threshold
  /\ data[i + 1] > data[i]
  /\ data[i + 1] > data[i + 2]
\* beat time a is before beat time b, both held as <<n, d1, d2>>
Earlier(a, b) == a[1] * b[2] * b[3] < b[1] * a[2] * a[3]

\* C25: the peaks findPeaks returns are strictly ascending, each a candidate (inside the data,
\* above the threshold and above both neighbours) and at least 10 after the one before; a
\* candidate left out is less than 10 after a listed peak; the beats derived are strictly
\* ascending.
C25_PeaksAreSpacedLocalMaxima ==
  PeaksFound =>
    LET data == frame.args.data
        peaks == frame.result.peaks
        beats == frame.result.beats
    IN  /\ \A k \in 1..Len(peaks) : Candidate(data, frame.args.threshold, peaks[k])
        /\ \A k \in 1..(Len(peaks) - 1) :
             peaks[k] < peaks[k + 1] /\ peaks[k + 1] - peaks[k] >= MinDistance
        /\ \A i \in 1..(Len(data) - 2) :
             (Candidate(data, frame.args.threshold, i)
                /\ \A k \in 1..Len(peaks) : peaks[k] # i)
               => \E k \in 1..Len(peaks) : peaks[k] < i /\ i - peaks[k] < MinDistance
        /\ frame.pc = "done" =>
             /\ Len(beats) = Len(peaks)
             /\ \A k \in 1..(Len(beats) - 1) : Earlier(beats[k], beats[k + 1])

\* two peaks listed, at 1 and at 11, a candidate between them dropped, and both beats derived
C25_CandidateBetweenTwoPeaksDropped ==
  /\ frame.method = "findPeaks" /\ frame.pc = "done"
  /\ frame.result.peaks = <<1, 11>>
  /\ Candidate(frame.args.data, frame.args.threshold, 5)
  /\ Len(frame.result.beats) = 2

(***************************************************************************)
(* Properties of timeStretch's overlap-add loop (SpecStretch)              *)
(***************************************************************************)
\* the values of i the loop takes: 0, hopSize, ... below outputLength - windowSize
LoopTurns(outputLength) ==
  {i \in 0..Max(0, outputLength - WindowSize - 1) :
     i % HopSize = 0 /\ i < outputLength - WindowSize}
\* Math.floor(i * stretchFactor)
SourceIndex(i, stretchFactor) == MulDivFloor(i, stretchFactor, Scale)

\* C26: in a stretched buffer every grain added reads the source below inputLength and
\* writes the output below outputLength, a turn whose window would reach the end of the
\* source (sourceIndex + 2048 >= inputLength) adds nothing, so no sample read is undefined,
\* and an output frame under no added grain is 0.
C26_GrainsStayInsideBothBuffers ==
  (StretchReturned /\ ~Unstretched(frame.args.stretchFactor)) =>
    LET inputData == frame.before.channels[1]
        outputData == heap[frame.result].channels[1]
        factor == frame.args.stretchFactor
        inputLength == Len(inputData)
        outputLength == Len(outputData)
        added == GrainStarts(inputLength, outputLength, factor)
        kept == {i \in LoopTurns(outputLength) :
                   SourceIndex(i, factor) + WindowSize < inputLength}
    IN  /\ added = kept
        /\ \A i \in added :
             /\ 0 <= SourceIndex(i, factor)
             /\ SourceIndex(i, factor) + (WindowSize - 1) < inputLength
             /\ i + (WindowSize - 1) < outputLength
        /\ \A n \in 1..outputLength :
             /\ ~IsNaN(outputData[n])
             /\ (\A i \in kept : n - 1 < i \/ n - 1 >= i + WindowSize) => outputData[n] = 0

\* a source stretched to twice its length: ten grains added, the turns from 5120 on skipped
\* because their window would pass the end of the source, and the frames after the last
\* grain left at 0 while frames under a grain are not
C26_LastTurnsSkippedTailSilent ==
  /\ StretchReturned
  /\ frame.args.stretchFactor = 500
  /\ Len(frame.before.channels[1]) = LongLength
  /\ Cardinality(GrainStarts(LongLength, 2 * LongLength, 500)) = 10
  /\ 5120 \in LoopTurns(2 * LongLength)
  /\ heap[frame.result].channels[1][2 * LongLength] = 0
  /\ heap[frame.result].channels[1][WindowSize] # 0

(***************************************************************************)
(* Properties of the mix timeline (SpecMix)                                *)
(***************************************************************************)
\* C27: in a finished mix with crossfadeSamples >= 0, Track B, which starts at frame
\* floor(0.3 * lenA), ends inside the output: floor(0.3 * lenA) + lenB is at most
\* max(lenA, lenB) + crossfadeSamples, the length of the output, and every sample of
\* Track B is the sample2 of a frame of the mix.
C27_TrackBEndsInsideOutput ==
  \A c \in DOMAIN calls :
    (MixDone(c) /\ CrossfadeFrames(c) >= 0) =>
      /\ StartB(c) + Len(TrackB(c))
           <= Max(Len(TrackA(c)), Len(TrackB(c))) + CrossfadeFrames(c)
      /\ StartB(c) + Len(TrackB(c)) <= Len(calls[c].mix)
      /\ \A j \in 1..Len(TrackB(c)) :
           calls[c].mix[StartB(c) + j].sample2 = TrackB(c)[j]

(***************************************************************************)
(* Properties of the useAudioMixing hook (SpecHook)                        *)
(***************************************************************************)
InFlight(k) == invocations[k].pc # "done"

\* C28: state.isProcessing stays true while a loadAudioFile or createMashup call is in
\* flight: a step in which one call completes while another is still running does not clear
\* isProcessing.
C28_CompletionKeepsProcessingOfOthers ==
  [][\A k \in DOMAIN invocations :
       (/\ state.isProcessing
        /\ InFlight(k)
        /\ invocations'[k].pc = "done"
        /\ \E j \in DOMAIN invocations \ {k} : invocations'[j].pc # "done")
         => state'.isProcessing]_vars

TrackIds == {state.loadedTracks[n].id : n \in DOMAIN state.loadedTracks}

\* C29: in every state of the hook, whatever calls of loadAudioFile, createMashup,
\* removeTrack and clearAllTracks have run or are suspended, the keys of state.beatInfo are
\* the ids of state.loadedTracks.
C29_BeatInfoKeysAreTrackIds == DOMAIN state.beatInfo = TrackIds

\* a track loaded while the first of two loaded tracks was removed: the tracks left are the
\* second and the new one, each with its beatInfo
C29_TrackRemovedDuringLoad ==
  /\ TrackIds = {2, 3}
  /\ DOMAIN state.beatInfo = {2, 3}
  /\ urls[1].revoked
  /\ Len(invocations) = 1 /\ invocations[1].returned = "track"

\* a step of invocation k, a call appended included
StepOf(k) == k \notin DOMAIN invocations \/ invocations'[k] # invocations[k]
Kept == /\ state'.loadedTracks = state.loadedTracks
        /\ state'.beatInfo = state.beatInfo
        /\ state'.mixedAudio = state.mixedAudio

\* C30: a loadAudioFile or createMashup call that fails returns null in a step that leaves
\* isProcessing = false, progress = 0, error = the failure message and currentOperation =
\* null; no step of a call other than its successful return changes loadedTracks, beatInfo
\* or mixedAudio; a createMashup given an id that is not loaded sets the error and returns
\* null in its first step, isProcessing and all else left as they were.
C30_FailureResetsAndKeepsTracks ==
  [][\A k \in DOMAIN invocations' :
       StepOf(k) =>
         /\ invocations'[k].returned \notin {"track", "url"} => Kept
         /\ (k \in DOMAIN invocations /\ invocations'[k].returned = "null") =>
              /\ invocations'[k].errorMessage # ""
              /\ state' = [state EXCEPT !.isProcessing = FALSE, !.progress = 0,
                                        !.error = invocations'[k].errorMessage]
              /\ currentOperation' = NoOperation
         /\ (k \notin DOMAIN invocations /\ invocations'[k].returned = "null") =>
              /\ invocations'[k].method = "createMashup"
              /\ \/ FindTrack(state.loadedTracks, invocations'[k].args.track1Id) = NoTrack
                 \/ FindTrack(state.loadedTracks, invocations'[k].args.track2Id) = NoTrack
              /\ state' = [state EXCEPT !.error = "Please select two tracks to mix"]
              /\ currentOperation' = currentOperation
         /\ (k \notin DOMAIN invocations /\ invocations'[k].method = "createMashup"
               /\ invocations'[k].returned = "") =>
              /\ FindTrack(state.loadedTracks, invocations'[k].args.track1Id) # NoTrack
              /\ FindTrack(state.loadedTracks, invocations'[k].args.track2Id) # NoTrack]_vars

\* a createMashup on two loaded tracks has failed in the mixer and returned null, the state
\* reset with the mixer's message and both tracks still loaded
C30_MashupFailedTracksKept ==
  /\ Len(invocations) = 1
  /\ invocations[1].method = "createMashup" /\ invocations[1].returned = "null"
  /\ invocations[1].mixer # 0 /\ calls[invocations[1].mixer].pc = "failed"
  /\ ~state.isProcessing /\ state.progress = 0
  /\ state.error = invocations[1].errorMessage /\ state.error # ""
  /\ currentOperation = NoOperation
  /\ Len(state.loadedTracks) = 2

====
